---- MODULE Spec2Model ----
(***************************************************************************)
(* A model of miter, in parts, each with a specification of its own:       *)
(*                                                                         *)
(*   Spec         the request pipeline of the RouterReflector              *)
(*                (src/src/router/reflector.ts): the interceptor chain     *)
(*                built by the function createFullRouterFn returns, and    *)
(*                the policy + handler layer (fullRouterFn) it ends in.    *)
(*                Several requests are in flight at once and interleave    *)
(*                at the awaits of the code.                               *)
(*   SpecReflect  the reflection of the controller tree into the dispatch  *)
(*                table at startup (reflectServerRoutes, addRoute).        *)
(*   SpecFlatten  flattenPolicies, as a function of a list of policy       *)
(*                descriptors and the sub-policies the types declare.      *)
(*   SpecWhere    transformQueryWhere of DbImpl (src/src/index.ts), as a   *)
(*                function of the associations of a model and a filter.    *)
(*   SpecOrm      the construction of the DbImpl of the models, and the    *)
(*                include and result transforms with their deferred        *)
(*                lookups of the foreign DbImpl.                           *)
(*   SpecTransaction  DbImpl.updateOrCreate and its transaction.           *)
(*   SpecCrud     the handlers of CrudController                           *)
(*                (src/src/controllers/crud-controller.ts).                *)
(*   SpecSplit    splitOnWords, as a function of a name.                   *)
(*                                                                         *)
(* A part leaves the variables of the other parts alone.                   *)
(***************************************************************************)
EXTENDS Integers, Sequences, FiniteSets, TLC

(***************************************************************************)
(* Bounds of the model.                                                    *)
(***************************************************************************)
\* requests in flight at once
NumRequests == 2
\* length of the policy chain of the route
NumPolicies == 2
\* interceptors registered besides the built-in one
MaxUserInterceptors == 1
\* calls of next one registered interceptor makes at most
MaxNextCalls == 2
\* routes registered with the dispatch table that requests are sent to
NumRoutes == 2
\* policy types
NumPolicyCtors == 3
\* sub-policies the metadata of one policy type declares at most
MaxNested == 2
\* length of the list flattenPolicies is given at most
MaxDescriptors == 2
\* controller types
NumControllers == 3
\* controllers the server lists at most
MaxRootControllers == 2
\* child controllers the metadata of one controller lists at most
MaxChildControllers == 1
\* route entries one controller declares at most
MaxRoutes == 2
\* policies one level (server, controller) declares at most
MaxLevelPolicies == 1
\* associations one model declares at most
MaxTransforms == 2
\* characters of a name given to splitOnWords
MaxNameLen == 4
\* model classes
NumModels == 2
\* associations one model declares at most
MaxAssociations == 2
\* field names of one include query at most
MaxInclude == 2
\* calls of updateOrCreate in flight at once
NumCalls == 2
\* interceptors registered besides the built-in one when the one request of
\* SpecChain arrives
ChainInterceptors == 2

(***************************************************************************)
(* Program constants.                                                      *)
(***************************************************************************)
HTTP_STATUS_NOT_FOUND == 404
HTTP_STATUS_INTERNAL_SERVER_ERROR == 500
\* res.statusCode of a fresh response, read as initialStatusCode
DefaultStatusCode == 200

Requests == 1..NumRequests
\* a status a policy, a handler or an error handler sets itself
UserStatuses == {401}
\* the interceptors: the one the constructor registers, and those registered with
\* registerRouteInterceptor, which may do anything with next: never call it, call
\* it up to MaxNextCalls times, catch what it raises
UserKinds == {"user"}
\* what a collaborator (policy, handler, error handler, interceptor) does to the
\* response during its call: nothing, res.status(s), res.send(..) or both
Effects == {"none", "status", "send", "statusSend"}
\* the (awaited) value of handleRouteError / handleNoRouteResponse
ErrorResults == {"true", "false", "undefined"}
\* values a policy returns
PolicyValues == {"v"}
\* the routes of the dispatch table: each is a function createFullRouterFn
\* returned, with its own routeMethodName; all have a chain of NumPolicies
\* policies and a handler
Routes == 1..NumRoutes

VARIABLES
    interceptors,       \* RouterReflector._interceptors: the kinds, in order
    unfinishedRoutes,   \* RouterReflector.unfinishedRoutes
    requestIndex,       \* RouterReflector.requestIndex
    pc,                 \* per request: where its execution stands
    chain,              \* per request: its copy [...self._interceptors]
    lvl,                \* per request: the innermost interceptor that is running
    nexts,              \* per request, per running interceptor: next() calls made
    exc,                \* per request: the exception in flight
    res,                \* per request: the response object
    reqIdx,             \* per request: req.requestIndex
    outerInitial,       \* per request: initialStatusCode of the returned function
    fn,                 \* per request: the locals of fullRouterFn
    log,                \* per request: history of calls and returns
    outcome,            \* per request: how the registered route function settled
    route,              \* per request: the route the dispatch table sent it to
    routeMethodName     \* per request: req.routeMethodName

\* the state of the request pipeline
pipelineVars == <<interceptors, unfinishedRoutes, requestIndex, pc, chain, lvl, nexts,
                  exc, res, reqIdx, outerInitial, fn, log, outcome, route,
                  routeMethodName>>

VARIABLES
    policyMeta,         \* per policy type: the sub-policies its metadata declares
    descriptors,        \* flattenPolicies: the list it is given
    aggregate,          \* flattenPolicies: what it returned, or how it ended
    again               \* flattenPolicies: what it returned for its own result

\* the state of the runs of flattenPolicies
flattenVars == <<descriptors, aggregate, again>>

VARIABLES
    routerMeta,         \* RouterMetadata: path, policies and controllers of the server
    controllers,        \* RouterReflector.controllers: the keys that hold an instance
    controllersReflected, \* RouterReflector.controllersReflected
    routesReflected,    \* RouterReflector.routesReflected
    stack,              \* the calls of reflectRoutes in progress, innermost last
    current,            \* the call of reflectControllerRoutes in its loop of routes
    routesAdded,        \* the express router: how many routes it holds
    lastRoute,          \* addRoute: what the step just taken did with a declared route
    status,             \* how far the startup of the server has come
    walked              \* history: the controller types registered so far

\* the state of the reflection
reflectVars == <<routerMeta, controllers, controllersReflected, routesReflected,
                 stack, current, routesAdded, lastRoute, status, walked>>

VARIABLES
    transforms,         \* DbImpl: what getTransforms returned for the model
    query,              \* transformQueryWhere: the filter it is given
    transformed         \* transformQueryWhere: what it returned, or how it ended

\* the state of the runs of transformQueryWhere
whereVars == <<transforms, query, transformed>>

VARIABLES
    modelMeta,          \* the associations the models declare
    dbs,                \* the models whose DbImpl is constructed (Model.db is set)
    ormCall             \* DbImpl: what the call just made did

\* the state of the DbImpl objects
ormVars == <<modelMeta, dbs, ormCall>>

VARIABLES
    tx                  \* updateOrCreate: where the call is and what it did

VARIABLES
    crudCtl,            \* CrudController: the controller the request is handled by
    crud                \* CrudController: where the handler is and what it did

\* the state of the handlers of CrudController
crudVars == <<crudCtl, crud>>

VARIABLES
    splitName,          \* splitOnWords: the name it is given
    splitWords          \* splitOnWords: the words it yielded

\* the state of the runs of splitOnWords
splitVars == <<splitName, splitWords>>

\* the state of the parts about DbImpl, CrudController and splitOnWords
dbAndCrudVars == <<ormVars, tx, crudVars, splitVars>>

\* the state the request pipeline never touches
outsidePipeline == <<policyMeta, flattenVars, reflectVars, whereVars, dbAndCrudVars>>

\* the state the reflection never touches
outsideReflect == <<pipelineVars, flattenVars, whereVars, dbAndCrudVars>>

\* the state flattenPolicies never touches
outsideFlatten == <<pipelineVars, reflectVars, whereVars, dbAndCrudVars>>

\* the state transformQueryWhere never touches
outsideWhere == <<pipelineVars, policyMeta, flattenVars, reflectVars, dbAndCrudVars>>

\* the state of the pipeline, the reflection, flattenPolicies and
\* transformQueryWhere
routerAndWhereVars == <<pipelineVars, policyMeta, flattenVars, reflectVars, whereVars>>

\* the state the DbImpl objects never touch
outsideOrm == <<routerAndWhereVars, tx, crudVars, splitVars>>

\* the state updateOrCreate never touches
outsideTransaction == <<routerAndWhereVars, ormVars, crudVars, splitVars>>

\* the state the handlers of CrudController never touch
outsideCrud == <<routerAndWhereVars, ormVars, tx, splitVars>>

\* the state splitOnWords never touches
outsideSplit == <<routerAndWhereVars, ormVars, tx, crudVars>>

vars == <<pipelineVars, outsidePipeline>>

(***************************************************************************)
(* The response object of the HTTP library.                                *)
(***************************************************************************)
FreshResponse ==
    [statusCode |-> DefaultStatusCode, headersSent |-> FALSE, errorResult |-> "unset"]

\* res.statusCode !== initialStatusCode || res.headersSent
Produced(resp, initial) == resp.statusCode # initial \/ resp.headersSent

\* res.statusCode === initialStatusCode
StatusUnchanged(resp, initial) == resp.statusCode = initial

\* a collaborator only sends on a response whose headers are not sent yet
CanApply(resp, eff) == eff \in {"send", "statusSend"} => ~resp.headersSent

ApplyEffect(resp, eff, s) ==
    [resp EXCEPT !.statusCode = IF eff \in {"status", "statusSend"} THEN s ELSE @,
                 !.headersSent = IF eff \in {"send", "statusSend"} THEN TRUE ELSE @]

\* res.status(code); res.send(body).  res.status only assigns statusCode.  res.send
\* sets the Content-Type header, which the HTTP library refuses with an exception
\* once the headers are sent.
StatusAndSend(resp, code) ==
    [res   |-> [resp EXCEPT !.statusCode = code, !.headersSent = TRUE],
     threw |-> resp.headersSent]

\* !errorResult
Falsy(v) == v \in {"false", "undefined", "unset"}

(***************************************************************************)
(* History: what a request called, and what returned, in order.  An event  *)
(* of a call that returned ("end") says whether a response was produced by *)
(* then; val is the value an error handler returned, or the error the      *)
(* layer raised when it ended.                                             *)
(***************************************************************************)
EvVal(ev, step, idx, resp, val) ==
    [ev |-> ev, step |-> step, idx |-> idx,
     produced |-> ev = "end" /\ Produced(resp, DefaultStatusCode),
     val |-> val]

Ev(ev, step, idx, resp) == EvVal(ev, step, idx, resp, "none")

FreshFn == [initialStatusCode |-> DefaultStatusCode, q |-> 0,
            allResults |-> <<>>, errorResult |-> "unset", failed |-> FALSE]

\* a run of flattenPolicies that has not been made
NotRun == [ran |-> FALSE, threw |-> FALSE, list |-> <<>>]

\* no policy type declares sub-policies, and flattenPolicies is not run
NoFlattenRun ==
    /\ policyMeta = [p \in 1..NumPolicyCtors |-> <<>>]
    /\ descriptors = <<>>
    /\ aggregate = NotRun
    /\ again = NotRun

\* reflectControllerRoutes is not in its loop of routes
NoCurrent == [ctrl |-> 0, meta |-> <<>>, w |-> 0]

\* the step just taken was no call of addRoute
NoRoute == [kind |-> "none", method |-> "none", fullPath |-> <<>>, policies |-> <<>>,
            routeMethodName |-> <<>>, routeFnName |-> "none", from |-> <<>>]

\* the server is constructed, with an empty router and no controller to reflect
NoReflection ==
    /\ routerMeta = [path |-> <<>>, policies |-> <<>>, controllers |-> <<>>]
    /\ controllers = {}
    /\ controllersReflected = 0
    /\ routesReflected = 0
    /\ stack = <<>>
    /\ current = NoCurrent
    /\ routesAdded = 0
    /\ lastRoute = NoRoute
    /\ status = [phase |-> "constructed", error |-> "none", culprit |-> 0]
    /\ walked = {}

\* the names of the properties of a model and of the columns of its table
Names == {"owner", "ownerId", "team"}

\* a key a filter does not have
Absent == [kind |-> "absent", id |-> 0]

\* transformQueryWhere is called without a filter (query is undefined)
NoFilter == [defined |-> FALSE, fields |-> [n \in Names |-> Absent]]

\* transformQueryWhere has not been run
NotTransformed == [ran |-> FALSE, threw |-> FALSE, query |-> NoFilter]

\* the model has no association, and transformQueryWhere is not run
NoQuery ==
    /\ transforms = <<>>
    /\ query = NoFilter
    /\ transformed = NotTransformed

\* no model is registered and no DbImpl constructed
NoOrmCall == [op |-> "none", model |-> 0, threw |-> FALSE, error |-> "none",
              invoked |-> {}, input |-> <<>>, out |-> <<>>]

NoOrm ==
    /\ modelMeta = <<>>
    /\ dbs = {}
    /\ ormCall = NoOrmCall

\* the calls of updateOrCreate
Calls == 1..NumCalls

\* updateOrCreate is not called
NoTransactionCall ==
    [pc |-> "idle", acquired |-> FALSE, failed |-> FALSE, stepRaised |-> FALSE,
     commits |-> 0, rollbacks |-> 0, error |-> "none", result |-> "none",
     row |-> "none"]

NoTransaction == tx = [c \in Calls |-> NoTransactionCall]

\* no request has come to a CrudController
\* no handler of CrudController is running: the response is fresh
NoCrudRequest ==
    [op |-> "none", pc |-> "idle", body |-> "none", returned |-> "none",
     created |-> "none", destroyed |-> "none", afterCreate |-> "none",
     suspended |-> FALSE, statusCode |-> DefaultStatusCode, headersSent |-> FALSE,
     sent |-> <<>>, threw |-> FALSE, storage |-> <<>>,
     id |-> "absent", perPage |-> "absent", page |-> "absent",
     returning |-> FALSE,
     limit |-> [kind |-> "none", v |-> 0], offset |-> [kind |-> "none", v |-> 0]]

\* the hooks of CrudController itself: transformCreateQuery and
\* transformCreateResult return what they are given, afterCreate does nothing
DefaultHooks ==
    [transformCreateQuery |-> [returned |-> "query", sends |-> FALSE],
     transformCreateResult |-> [sends |-> FALSE],
     afterCreate |-> "returns",
     transformQuery |-> [sends |-> FALSE],
     transformResult |-> [sends |-> FALSE]]

\* no route of a CrudController is registered and none of its handlers runs
NoCrud ==
    /\ crudCtl = [hooks |-> DefaultHooks, registered |-> <<>>]
    /\ crud = NoCrudRequest

\* splitOnWords is not run
NotSplit == [ran |-> FALSE, words |-> <<>>]

NoSplit ==
    /\ splitName = <<>>
    /\ splitWords = NotSplit

\* DbImpl, CrudController and splitOnWords are at rest
NoDbOrCrud == NoOrm /\ NoTransaction /\ NoCrud /\ NoSplit

\* no request has arrived
NoneArrived ==
    /\ unfinishedRoutes = 0
    /\ requestIndex = 0
    /\ pc = [r \in Requests |-> "idle"]
    /\ chain = [r \in Requests |-> <<>>]
    /\ lvl = [r \in Requests |-> 0]
    /\ nexts = [r \in Requests |-> <<>>]
    /\ exc = [r \in Requests |-> "none"]
    /\ res = [r \in Requests |-> FreshResponse]
    /\ reqIdx = [r \in Requests |-> 0]
    /\ outerInitial = [r \in Requests |-> DefaultStatusCode]
    /\ fn = [r \in Requests |-> FreshFn]
    /\ log = [r \in Requests |-> <<>>]
    /\ outcome = [r \in Requests |-> "pending"]
    /\ route = [r \in Requests |-> 0]
    /\ routeMethodName = [r \in Requests |-> "unset"]

\* the reflector is constructed, with its built-in interceptor, and no request
\* has arrived
NoRequests == interceptors = <<"builtin">> /\ NoneArrived

\* the pipeline, the reflection, flattenPolicies and transformQueryWhere are at
\* rest
NoRouterOrWhere == NoRequests /\ NoFlattenRun /\ NoReflection /\ NoQuery

Init == NoRequests /\ NoFlattenRun /\ NoReflection /\ NoQuery /\ NoDbOrCrud

(***************************************************************************)
(* Interceptors.                                                           *)
(***************************************************************************)
\* registerRouteInterceptor(interceptor): this._interceptors.push(interceptor)
Registered(list, k) == Append(list, k)

RegisterRouteInterceptor(k) ==
    /\ Len(interceptors) < 1 + MaxUserInterceptors
    /\ interceptors' = Registered(interceptors, k)
    /\ UNCHANGED <<outsidePipeline, route, routeMethodName,
                   unfinishedRoutes, requestIndex, pc, chain, lvl, nexts, exc, res,
                   reqIdx, outerInitial, fn, log, outcome>>

\* may an interceptor of this kind that made n calls of next make another one:
\* the built-in one awaits next() once
MayCallNext(kind, n) ==
    IF kind = "builtin" THEN n = 0 ELSE n < MaxNextCalls

\* may an interceptor of this kind that made n calls of next return now
MayReturn(kind, n) ==
    IF kind = "builtin" THEN n = 1 ELSE TRUE

\* a catch that raises e again whatever res.errorResult is
BuiltinRethrows_Always(resp) == TRUE

\* the built-in interceptor's catch: if (!res.errorResult) throw e
BuiltinRethrows(resp) == Falsy(resp.errorResult)

\* the routeMethodName the function registered for route k closes over:
\* `${controllerName}#${routeFnName}`
RouteMethodNameOf(k) == <<"Controller", k>>

\* ++self.requestIndex
NextRequestIndex(n) == n + 1

\* The function createFullRouterFn returns for route k, up to its first await:
\* the request takes the next requestIndex, is given the name of the route,
\* copies the interceptor list and calls interceptors[0].  Requests are numbered
\* in the order they arrive in, and routes in the order they are first used in
\* (they differ in nothing but their name).
Arrive(r, k) ==
    /\ pc[r] = "idle"
    /\ \A p \in Requests : p < r => pc[p] # "idle"
    /\ \A j \in Routes : j < k => \E p \in Requests : route[p] = j
    /\ requestIndex' = NextRequestIndex(requestIndex)
    /\ reqIdx' = [reqIdx EXCEPT ![r] = NextRequestIndex(requestIndex)]
    /\ route' = [route EXCEPT ![r] = k]
    /\ routeMethodName' = [routeMethodName EXCEPT ![r] = RouteMethodNameOf(k)]
    /\ chain' = [chain EXCEPT ![r] = interceptors]
    /\ outerInitial' = [outerInitial EXCEPT ![r] = res[r].statusCode]
    /\ pc' = [pc EXCEPT ![r] = "icept"]
    /\ lvl' = [lvl EXCEPT ![r] = 1]
    /\ nexts' = [nexts EXCEPT ![r] = <<0>>]
    /\ log' = [log EXCEPT ![r] = <<Ev("start", "icept", 1, res[r])>>]
    /\ UNCHANGED <<outsidePipeline, interceptors, unfinishedRoutes, exc, res, fn,
                   outcome>>

\* a callback that goes on to the next interceptor whatever the response is
NextReturnsAtOnce_Never(resp, initial) == FALSE

\* interceptorCallbacks[q]: if (res.statusCode !== initialStatusCode ||
\* res.headersSent) return
NextReturnsAtOnce(resp, initial) == Produced(resp, initial)

\* interceptorCallbacks[q] when a response was produced: it returns at once
NextAfterResponse(r) ==
    /\ pc[r] = "icept" /\ exc[r] = "none"
    /\ MayCallNext(chain[r][lvl[r]], nexts[r][lvl[r]])
    /\ NextReturnsAtOnce(res[r], outerInitial[r])
    /\ nexts' = [nexts EXCEPT ![r][lvl[r]] = @ + 1]
    /\ UNCHANGED <<outsidePipeline, route, routeMethodName,
                   interceptors, unfinishedRoutes, requestIndex, pc, chain, lvl, exc,
                   res, reqIdx, outerInitial, fn, log, outcome>>

\* the index of the interceptor interceptorCallbacks[q] calls: q + 1
NextIndex(i) == i + 1

\* interceptorCallbacks[q] calling a registered interceptor
NextInterceptor(r) ==
    /\ pc[r] = "icept" /\ exc[r] = "none"
    /\ MayCallNext(chain[r][lvl[r]], nexts[r][lvl[r]])
    /\ ~NextReturnsAtOnce(res[r], outerInitial[r])
    /\ NextIndex(lvl[r]) <= Len(chain[r])
    /\ nexts' = [nexts EXCEPT ![r] =
                    [j \in 1..NextIndex(lvl[r]) |->
                        IF j = lvl[r] THEN nexts[r][j] + 1
                        ELSE IF j < lvl[r] THEN nexts[r][j] ELSE 0]]
    /\ lvl' = [lvl EXCEPT ![r] = NextIndex(lvl[r])]
    /\ log' = [log EXCEPT ![r] = Append(@, Ev("start", "icept", NextIndex(lvl[r]), res[r]))]
    /\ UNCHANGED <<outsidePipeline, route, routeMethodName,
                   interceptors, unfinishedRoutes, requestIndex, pc, chain, exc, res,
                   reqIdx, outerInitial, fn, outcome>>

\* how an interceptor that ends with error e (or "none") hands control back
EndInterceptor(r, e, resp, events) ==
    /\ res' = [res EXCEPT ![r] = resp]
    /\ log' = [log EXCEPT ![r] = @ \o events \o <<Ev("end", "icept", lvl[r], resp)>>]
    /\ exc' = [exc EXCEPT ![r] = e]
    /\ lvl' = [lvl EXCEPT ![r] = @ - 1]
    /\ nexts' = [nexts EXCEPT ![r] = SubSeq(@, 1, lvl[r] - 1)]
    /\ IF lvl[r] = 1
       THEN /\ pc' = [pc EXCEPT ![r] = "done"]
            /\ outcome' = [outcome EXCEPT ![r] = IF e = "none" THEN "returned" ELSE "raised"]
       ELSE /\ pc' = [pc EXCEPT ![r] = "icept"]
            /\ UNCHANGED outcome
    /\ UNCHANGED <<outsidePipeline, route, routeMethodName,
                   interceptors, unfinishedRoutes, requestIndex, chain, reqIdx,
                   outerInitial, fn>>

\* an interceptor returns; one that never called next may have answered the
\* request itself
InterceptorReturns(r, eff, s) ==
    /\ pc[r] = "icept" /\ exc[r] = "none"
    /\ MayReturn(chain[r][lvl[r]], nexts[r][lvl[r]])
    /\ nexts[r][lvl[r]] > 0 => eff = "none"
    /\ CanApply(res[r], eff)
    /\ EndInterceptor(r, "none", ApplyEffect(res[r], eff, s), <<>>)

\* the await next() of the built-in interceptor raised e: it logs e and raises it
\* again unless res.errorResult is set
BuiltinCatches(r) ==
    /\ pc[r] = "icept" /\ exc[r] # "none"
    /\ chain[r][lvl[r]] = "builtin"
    /\ EndInterceptor(r, IF BuiltinRethrows(res[r]) THEN exc[r] ELSE "none", res[r],
                      <<Ev("catch", "icept", lvl[r], res[r])>>)

\* the await next() of a registered interceptor raised e and it does not catch e
InterceptorRaises(r) ==
    /\ pc[r] = "icept" /\ exc[r] # "none"
    /\ chain[r][lvl[r]] # "builtin"
    /\ EndInterceptor(r, exc[r], res[r], <<>>)

\* the await next() of a registered interceptor raised e and it catches e
InterceptorCatches(r) ==
    /\ pc[r] = "icept" /\ exc[r] # "none"
    /\ chain[r][lvl[r]] # "builtin"
    /\ exc' = [exc EXCEPT ![r] = "none"]
    /\ log' = [log EXCEPT ![r] = Append(@, Ev("catch", "icept", lvl[r], res[r]))]
    /\ UNCHANGED <<outsidePipeline, route, routeMethodName,
                   interceptors, unfinishedRoutes, requestIndex, pc, chain, lvl,
                   nexts, res, reqIdx, outerInitial, fn, outcome>>

(***************************************************************************)
(* The policy + handler layer: fullRouterFn.                               *)
(***************************************************************************)
\* the check after a policy without its res.headersSent half
PolicyShortCircuits_StatusOnly(resp, initial) == resp.statusCode # initial

\* after a policy: if (res.statusCode !== initialStatusCode || res.headersSent) return
PolicyShortCircuits(resp, initial) == Produced(resp, initial)

\* the guard of the synthesized responses with the comparison turned around
NeedsSynth_Inverted(resp, initial) == resp.statusCode # initial

\* the guard of the synthesized 500 and 404: initialStatusCode === res.statusCode
NeedsSynth(resp, initial) == StatusUnchanged(resp, initial)

\* the policy catch block ending like the handler's: throw e in every case
PolicyErrorRethrows_Always(errorResult) == TRUE

\* after a policy threw and the error handler ran: if (!errorResult) throw e; return
PolicyErrorRethrows(errorResult) == Falsy(errorResult)

\* the check of finally without its !res.headersSent part
NoRouteResponse_StatusOnly(failed, resp, initial) ==
    ~failed /\ resp.statusCode = initial

\* in finally: !failed && res.statusCode === initialStatusCode && !res.headersSent
NoRouteResponse(failed, resp, initial) ==
    ~failed /\ resp.statusCode = initial /\ ~resp.headersSent

\* a policy loop that stops one policy early: q < policies.length - 1
CallStep_OffByOne(q, resp) ==
    IF q < NumPolicies THEN [pc |-> "policy", ev |-> Ev("start", "policy", q, resp)]
    ELSE [pc |-> "route", ev |-> Ev("start", "route", 0, resp)]

\* the head of the policy loop and what follows it: the call of policy q, or of the
\* route handler once q is past the chain
CallStep(q, resp) ==
    IF q <= NumPolicies THEN [pc |-> "policy", ev |-> Ev("start", "policy", q, resp)]
    ELSE [pc |-> "route", ev |-> Ev("start", "route", 0, resp)]

\* a policy catch block that goes on with the handler after a swallowed error
\* instead of returning
ExitLayer_ResumeAfterSwallow(r, e, resp, events) ==
    /\ pc' = [pc EXCEPT ![r] = IF pc[r] = "policyError" /\ e = "none"
                                THEN "route" ELSE "icept"]
    /\ exc' = [exc EXCEPT ![r] = e]
    /\ res' = [res EXCEPT ![r] = resp]
    /\ log' = [log EXCEPT ![r] =
                 @ \o events \o
                 <<IF pc[r] = "policyError" /\ e = "none"
                   THEN Ev("start", "route", 0, resp)
                   ELSE EvVal("exit", "layer", 0, resp, e)>>]

\* the layer ends, raising e or returning ("none"), into the interceptor that
\* called next
ExitLayer(r, e, resp, events) ==
    /\ pc' = [pc EXCEPT ![r] = "icept"]
    /\ exc' = [exc EXCEPT ![r] = e]
    /\ res' = [res EXCEPT ![r] = resp]
    /\ log' = [log EXCEPT ![r] = @ \o events \o <<EvVal("exit", "layer", 0, resp, e)>>]

\* The policies of a route, as createFullRouterFn is given them: pairs [key, fn].
\* The first policy of the chain is a plain function, which has no key (0 stands
\* for the key undefined); policy q after it is an instance of the policy type q.
PolicyKeys == [q \in 1..NumPolicies |-> IF q = 1 THEN 0 ELSE q]

\* the policy types a handler may ask for; 1 and NumPolicies + 1 are in no chain
PolicyTypes == 1..(NumPolicies + 1)

\* The value policy q returns for request r: the value v marked with the request
\* and the policy it comes from.  The pipeline stores and hands back the values
\* without looking into them, so a value read back names the call that wrote it.
Marked(v, r, q) == <<v, r, q>>

\* the value undefined, in the shape of the marked values
Undefined == <<"undefined", 0, 0>>

\* allResults is a field of the reflector: one array for all the requests
AllResultsOf_Shared(r) == 1

\* let allResults: any[] = [] is a local of fullRouterFn: every call of it, and
\* so every request, has an array of its own
AllResultsOf(r) == r

\* an index taken to count from 1
ResultAt_OneBased(allResults, i) ==
    IF i \in DOMAIN allResults THEN allResults[i] ELSE Undefined

\* allResults[i] of the code, whose arrays count from 0
ResultAt(allResults, i) ==
    IF i + 1 \in DOMAIN allResults THEN allResults[i + 1] ELSE Undefined

\* the function createPolicyResultsFn returns, applied to policyFn: a number
\* <<"number", i>> or a policy type <<"type", P>>
policyResults(keys, allResults, policyFn) ==
    IF policyFn[1] = "number"
    THEN ResultAt(allResults, policyFn[2])
    ELSE LET found == {q \in DOMAIN keys : keys[q] = policyFn[2]}
         IN IF found = {} THEN Undefined
            ELSE ResultAt(allResults, (CHOOSE q \in found : \A k \in found : q <= k) - 1)

\* interceptorCallbacks[q] of the last registered interceptor calls the function
\* pushed last, which calls fullRouterFn: it counts the request in, takes
\* initialStatusCode and calls the first policy (or the handler)
NextFullRouterFn(r) ==
    /\ pc[r] = "icept" /\ exc[r] = "none"
    /\ MayCallNext(chain[r][lvl[r]], nexts[r][lvl[r]])
    /\ ~NextReturnsAtOnce(res[r], outerInitial[r])
    /\ NextIndex(lvl[r]) > Len(chain[r])
    /\ nexts' = [nexts EXCEPT ![r][lvl[r]] = @ + 1]
    /\ unfinishedRoutes' = unfinishedRoutes + 1
    /\ fn' = [fn EXCEPT ![r] = [FreshFn EXCEPT !.initialStatusCode = res[r].statusCode,
                                               !.q = 1],
                         ![AllResultsOf(r)].allResults = <<>>]
    /\ LET c == CallStep(1, res[r]) IN
        /\ pc' = [pc EXCEPT ![r] = c.pc]
        /\ log' = [log EXCEPT ![r] = @ \o <<Ev("enter", "layer", 0, res[r]), c.ev>>]
    /\ UNCHANGED <<outsidePipeline, route, routeMethodName,
                   interceptors, requestIndex, chain, lvl, exc, res, reqIdx,
                   outerInitial, outcome>>

\* the awaited policy returned v: the result is kept; a response ends the layer,
\* otherwise the next policy (or the handler) is called
PolicyReturns(r, eff, s, v) ==
    /\ pc[r] = "policy"
    /\ CanApply(res[r], eff)
    /\ LET resp == ApplyEffect(res[r], eff, s)
           q == fn[r].q
           result == Marked(v, r, q)
           done == EvVal("end", "policy", q, resp, result)
       IN IF PolicyShortCircuits(resp, fn[r].initialStatusCode)
          THEN /\ fn' = [fn EXCEPT ![AllResultsOf(r)].allResults = Append(@, result)]
               /\ ExitLayer(r, "none", resp, <<done>>)
          ELSE LET c == CallStep(q + 1, resp) IN
               /\ fn' = [fn EXCEPT ![AllResultsOf(r)].allResults = Append(@, result),
                                   ![r].q = q + 1]
               /\ pc' = [pc EXCEPT ![r] = c.pc]
               /\ res' = [res EXCEPT ![r] = resp]
               /\ log' = [log EXCEPT ![r] = @ \o <<done, c.ev>>]
               /\ UNCHANGED exc
    /\ UNCHANGED <<outsidePipeline, route, routeMethodName,
                   interceptors, unfinishedRoutes, requestIndex, chain, lvl, nexts,
                   reqIdx, outerInitial, outcome>>

\* the awaited policy threw: the catch block calls errorHandler.handleRouteError
PolicyThrows(r, eff, s) ==
    /\ pc[r] = "policy"
    /\ CanApply(res[r], eff)
    /\ LET resp == ApplyEffect(res[r], eff, s) IN
        /\ res' = [res EXCEPT ![r] = resp]
        /\ log' = [log EXCEPT ![r] = @ \o <<Ev("throw", "policy", fn[r].q, resp),
                                             Ev("start", "handleRouteError", 0, resp)>>]
    /\ pc' = [pc EXCEPT ![r] = "policyError"]
    /\ exc' = [exc EXCEPT ![r] = "thrown"]
    /\ UNCHANGED <<outsidePipeline, route, routeMethodName,
                   interceptors, unfinishedRoutes, requestIndex, chain, lvl, nexts,
                   reqIdx, outerInitial, fn, outcome>>

\* the rest of the policy catch block, once handleRouteError gave errorResult:
\* the 500 when the status is unchanged (with the only decrement of the counter on
\* this path), then throw e or return
PolicyErrorHandled(r, eff, s, errorResult) ==
    /\ pc[r] = "policyError"
    /\ CanApply(res[r], eff)
    /\ LET resp == ApplyEffect(res[r], eff, s)
           handled == EvVal("end", "handleRouteError", 0, resp, errorResult)
           sent == StatusAndSend(resp, HTTP_STATUS_INTERNAL_SERVER_ERROR)
           after == IF PolicyErrorRethrows(errorResult) THEN "thrown" ELSE "none"
       IN /\ fn' = [fn EXCEPT ![r].errorResult = errorResult]
          /\ IF NeedsSynth(resp, fn[r].initialStatusCode)
             THEN IF sent.threw
                  THEN /\ ExitLayer(r, "headers", sent.res,
                                    <<handled, Ev("synth", "500", 0, resp)>>)
                       /\ UNCHANGED unfinishedRoutes
                  ELSE /\ ExitLayer(r, after, sent.res,
                                    <<handled, Ev("synth", "500", 0, resp)>>)
                       /\ unfinishedRoutes' = unfinishedRoutes - 1
             ELSE /\ ExitLayer(r, after, resp, <<handled>>)
                  /\ UNCHANGED unfinishedRoutes
    /\ UNCHANGED <<outsidePipeline, route, routeMethodName,
                   interceptors, requestIndex, chain, lvl, nexts, reqIdx,
                   outerInitial, outcome>>

\* the awaited handler returned: finally counts the request out and, when there
\* is no response, calls errorHandler.handleNoRouteResponse
RouteReturns(r, eff, s) ==
    /\ pc[r] = "route"
    /\ CanApply(res[r], eff)
    /\ unfinishedRoutes' = unfinishedRoutes - 1
    /\ LET resp == ApplyEffect(res[r], eff, s)
           done == Ev("end", "route", 0, resp)
       IN IF NoRouteResponse(fn[r].failed, resp, fn[r].initialStatusCode)
          THEN /\ pc' = [pc EXCEPT ![r] = "noResponse"]
               /\ res' = [res EXCEPT ![r] = resp]
               /\ log' = [log EXCEPT ![r] =
                            @ \o <<done, Ev("start", "handleNoRouteResponse", 0, resp)>>]
               /\ UNCHANGED exc
          ELSE ExitLayer(r, "none", resp, <<done>>)
    /\ UNCHANGED <<outsidePipeline, route, routeMethodName,
                   interceptors, requestIndex, chain, lvl, nexts, reqIdx,
                   outerInitial, fn, outcome>>

\* the awaited handler threw: the catch block calls errorHandler.handleRouteError
RouteThrows(r, eff, s) ==
    /\ pc[r] = "route"
    /\ CanApply(res[r], eff)
    /\ LET resp == ApplyEffect(res[r], eff, s) IN
        /\ res' = [res EXCEPT ![r] = resp]
        /\ log' = [log EXCEPT ![r] = @ \o <<Ev("throw", "route", 0, resp),
                                             Ev("start", "handleRouteError", 0, resp)>>]
    /\ pc' = [pc EXCEPT ![r] = "routeError"]
    /\ exc' = [exc EXCEPT ![r] = "thrown"]
    /\ UNCHANGED <<outsidePipeline, route, routeMethodName,
                   interceptors, unfinishedRoutes, requestIndex, chain, lvl, nexts,
                   reqIdx, outerInitial, fn, outcome>>

\* the rest of the handler catch block, once handleRouteError gave errorResult:
\* the 500 when the status is unchanged, res.errorResult, failed, throw e; then
\* finally, which counts the request out (failed, or the status 500, keeps it
\* from calling handleNoRouteResponse)
RouteErrorHandled(r, eff, s, errorResult) ==
    /\ pc[r] = "routeError"
    /\ CanApply(res[r], eff)
    /\ unfinishedRoutes' = unfinishedRoutes - 1
    /\ LET resp == ApplyEffect(res[r], eff, s)
           handled == EvVal("end", "handleRouteError", 0, resp, errorResult)
           sent == StatusAndSend(resp, HTTP_STATUS_INTERNAL_SERVER_ERROR)
       IN IF NeedsSynth(resp, fn[r].initialStatusCode)
          THEN IF sent.threw
               THEN /\ fn' = [fn EXCEPT ![r].errorResult = errorResult]
                    /\ ExitLayer(r, "headers", sent.res,
                                 <<handled, Ev("synth", "500", 0, resp)>>)
               ELSE /\ fn' = [fn EXCEPT ![r].errorResult = errorResult,
                                        ![r].failed = TRUE]
                    /\ ExitLayer(r, "thrown",
                                 [sent.res EXCEPT !.errorResult = errorResult],
                                 <<handled, Ev("synth", "500", 0, resp)>>)
          ELSE /\ fn' = [fn EXCEPT ![r].errorResult = errorResult, ![r].failed = TRUE]
               /\ ExitLayer(r, "thrown", [resp EXCEPT !.errorResult = errorResult],
                            <<handled>>)
    /\ UNCHANGED <<outsidePipeline, route, routeMethodName,
                   interceptors, requestIndex, chain, lvl, nexts, reqIdx,
                   outerInitial, outcome>>

\* the rest of finally, once handleNoRouteResponse gave its result: the 404 when
\* the status is unchanged
NoRouteResponseHandled(r, eff, s, errorResult) ==
    /\ pc[r] = "noResponse"
    /\ CanApply(res[r], eff)
    /\ LET resp == ApplyEffect(res[r], eff, s)
           handled == Ev("end", "handleNoRouteResponse", 0, resp)
           sent == StatusAndSend(resp, HTTP_STATUS_NOT_FOUND)
       IN /\ UNCHANGED fn
          /\ IF NeedsSynth(resp, fn[r].initialStatusCode)
             THEN ExitLayer(r, IF sent.threw THEN "headers" ELSE "none", sent.res,
                            <<handled, Ev("synth", "404", 0, resp)>>)
             ELSE ExitLayer(r, "none", resp, <<handled>>)
    /\ UNCHANGED <<outsidePipeline, route, routeMethodName,
                   interceptors, unfinishedRoutes, requestIndex, chain, lvl, nexts,
                   reqIdx, outerInitial, outcome>>

(***************************************************************************)
(* The steps of one request, and the system.                               *)
(***************************************************************************)
Step(r) ==
    \/ \E k \in Routes : Arrive(r, k)
    \/ NextAfterResponse(r)
    \/ NextInterceptor(r)
    \/ NextFullRouterFn(r)
    \/ \E eff \in Effects, s \in UserStatuses : InterceptorReturns(r, eff, s)
    \/ BuiltinCatches(r)
    \/ InterceptorRaises(r)
    \/ InterceptorCatches(r)
    \/ \E eff \in Effects, s \in UserStatuses, v \in PolicyValues :
            PolicyReturns(r, eff, s, v)
    \/ \E eff \in Effects, s \in UserStatuses : PolicyThrows(r, eff, s)
    \/ \E eff \in Effects, s \in UserStatuses, e \in ErrorResults :
            PolicyErrorHandled(r, eff, s, e)
    \/ \E eff \in Effects, s \in UserStatuses : RouteReturns(r, eff, s)
    \/ \E eff \in Effects, s \in UserStatuses : RouteThrows(r, eff, s)
    \/ \E eff \in Effects, s \in UserStatuses, e \in ErrorResults :
            RouteErrorHandled(r, eff, s, e)
    \/ \E eff \in Effects, s \in UserStatuses, e \in ErrorResults :
            NoRouteResponseHandled(r, eff, s, e)

Next ==
    \/ \E k \in UserKinds : RegisterRouteInterceptor(k)
    \/ \E r \in Requests : Step(r)

Spec == Init /\ [][Next]_vars

\* SpecChain: one request that goes through ChainInterceptors registered
\* interceptors, each of which may call next again
InitChain ==
    /\ interceptors = <<"builtin">> \o [i \in 1..ChainInterceptors |-> "user"]
    /\ NoneArrived
    /\ NoFlattenRun /\ NoReflection /\ NoQuery /\ NoDbOrCrud

NextChain == Step(1)

SpecChain == InitChain /\ [][NextChain]_vars

(***************************************************************************)
(* Reading the history of a request.                                       *)
(***************************************************************************)
Is(e, ev, step) == e.ev = ev /\ e.step = step

\* the positions of the history of r that hold such an event
At(r, ev, step) == {i \in DOMAIN log[r] : Is(log[r][i], ev, step)}

\* a policy or the handler is called at position j
CallsForward(r, j) ==
    Is(log[r][j], "start", "policy") \/ Is(log[r][j], "start", "route")

\* the request is inside fullRouterFn
InLayer(r) == pc[r] \in {"policy", "policyError", "route", "routeError", "noResponse"}

\* calls of the step (step, idx) begun before position j and not ended by then
Open(r, step, idx, j) ==
    Cardinality({i \in 1..(j - 1) : Is(log[r][i], "start", step) /\ log[r][i].idx = idx})
    - Cardinality({i \in 1..(j - 1) : /\ log[r][i].ev \in {"end", "throw"}
                                       /\ log[r][i].step = step
                                       /\ log[r][i].idx = idx})

\* the policy (idx) returned before position j
Returned(r, idx, j) ==
    \E i \in 1..(j - 1) : Is(log[r][i], "end", "policy") /\ log[r][i].idx = idx

\* the first exit of the layer after position i, 0 when there is none yet
ExitAfter(r, i) ==
    LET later == {j \in At(r, "exit", "layer") : j > i}
    IN IF later = {} THEN 0 ELSE CHOOSE j \in later : \A k \in later : j <= k

(***************************************************************************)
(* C1.  If a policy returns after having produced a response (the status   *)
(* differs from the one at entry, or the headers were sent), no later      *)
(* policy and not the route handler is called for that request.            *)
(***************************************************************************)
C1_NothingAfterPolicyResponse ==
    \A r \in Requests : \A i \in At(r, "end", "policy") :
        log[r][i].produced =>
            \A j \in DOMAIN log[r] : j > i => ~CallsForward(r, j)

\* a request is over whose first policy answered with the headers sent and the
\* status left alone, a later policy being in the chain
C1_Witness ==
    \E r \in Requests :
        /\ pc[r] = "done"
        /\ res[r].statusCode = DefaultStatusCode
        /\ \E i \in At(r, "end", "policy") :
               log[r][i].produced /\ log[r][i].idx < NumPolicies

(***************************************************************************)
(* C2.  When the route handler throws, the layer calls handleRouteError    *)
(* and then raises the same error again, whatever the error handler        *)
(* returned and whether or not it sent a response.                         *)
(***************************************************************************)
C2_HandlerErrorRaisedAgain ==
    \A r \in Requests : \A i \in At(r, "throw", "route") :
        /\ Is(log[r][i + 1], "start", "handleRouteError")
        /\ ExitAfter(r, i) # 0 => log[r][ExitAfter(r, i)].val = "thrown"

C4_Synth500IffNoResponse ==
    \A r \in Requests : \A i \in At(r, "end", "handleRouteError") :
        Is(log[r][i + 1], "synth", "500") <=> ~log[r][i].produced

(***************************************************************************)
(* C5.  When the handler returns normally without a response,              *)
(* handleNoRouteResponse is called, and if there is still no response      *)
(* after it a 404 is sent; when the handler did produce a response,        *)
(* handleNoRouteResponse is not called and no 404 is sent.                 *)
(***************************************************************************)
C5_NoResponseFallback ==
    \A r \in Requests :
        /\ \A i \in At(r, "end", "route") :
              IF log[r][i].produced
              THEN /\ At(r, "start", "handleNoRouteResponse") = {}
                   /\ At(r, "synth", "404") = {}
              ELSE Is(log[r][i + 1], "start", "handleNoRouteResponse")
        /\ \A k \in At(r, "end", "handleNoRouteResponse") :
              ~log[r][k].produced =>
                  /\ Is(log[r][k + 1], "synth", "404")
                  /\ res[r].statusCode = HTTP_STATUS_NOT_FOUND
                  /\ res[r].headersSent

\* one request is over with the synthesized 404, and another whose handler
\* answered with the headers sent and the status left alone
C5_Witness ==
    \E r, p \in Requests :
        /\ pc[r] = "done" /\ pc[p] = "done"
        /\ \E k \in At(r, "end", "handleNoRouteResponse") : ~log[r][k].produced
        /\ res[r].statusCode = HTTP_STATUS_NOT_FOUND
        /\ \E i \in At(p, "end", "route") : log[p][i].produced
        /\ res[p].statusCode = DefaultStatusCode

(***************************************************************************)
(* C6.  Every request that enters the pipeline leaves it with a response   *)
(* produced: on every exit path of the registered route function the       *)
(* response has a changed status or a sent body.                           *)
(***************************************************************************)
C6_EveryRequestHasResponse ==
    \A r \in Requests : pc[r] = "done" => Produced(res[r], outerInitial[r])

\* C6 as amended: every request that enters the policy + handler layer leaves
\* it with a response produced, on every exit path of the layer, and a request
\* that has begun can always take a step until it is over (it never hangs); a
\* request that a registered interceptor ends without calling next never
\* enters the layer and has the response that interceptor gave it, if any.
C6_EveryExitHasResponse ==
    \A r \in Requests :
        /\ At(r, "exit", "layer") # {} => Produced(res[r], outerInitial[r])
        /\ pc[r] \notin {"idle", "done"} => ENABLED Step(r)
        /\ pc[r] = "done" /\ ~Produced(res[r], outerInitial[r]) =>
              /\ At(r, "enter", "layer") = {}
              /\ Len(chain[r]) > 1

\* both requests are over: one left the layer through the synthesized 404, the
\* other after a policy error that was swallowed
C6_Witness ==
    \E r, p \in Requests :
        /\ pc[r] = "done" /\ pc[p] = "done"
        /\ At(r, "synth", "404") # {}
        /\ At(p, "throw", "policy") # {}
        /\ \E j \in At(p, "exit", "layer") : log[p][j].val = "none"

(***************************************************************************)
(* C7.  unfinishedRoutes is decremented exactly once on every exit path    *)
(* of the layer, so it is 0 whenever no request is inside the layer.       *)
(***************************************************************************)
C7_CounterZeroWhenNoneInside ==
    (\A r \in Requests : ~InLayer(r)) => unfinishedRoutes = 0

(***************************************************************************)
(* C8.  Within one request the steps run one after the other in the        *)
(* registered order: the interceptors in registration order, the built-in  *)
(* one first, then the policies in chain order, then the handler; a step   *)
(* is called only after the step before it has returned, and no two        *)
(* policies are in progress at once.                                       *)
(***************************************************************************)
C8_StepsInOrder ==
    \A r \in Requests : \A j \in DOMAIN log[r] :
        LET e == log[r][j] IN
        /\ j = 1 => Is(e, "start", "icept") /\ e.idx = 1 /\ chain[r][1] = "builtin"
        /\ Is(e, "start", "icept") /\ j > 1 =>
              /\ e.idx \in 2..Len(chain[r])
              /\ Open(r, "icept", e.idx - 1, j) = 1
              /\ Open(r, "icept", e.idx, j) = 0
        /\ CallsForward(r, j) =>
              /\ \A k \in 1..Len(chain[r]) : Open(r, "icept", k, j) = 1
              /\ \A q \in 1..NumPolicies : Open(r, "policy", q, j) = 0
              /\ Open(r, "route", 0, j) = 0
        /\ Is(e, "start", "policy") =>
              /\ e.idx \in 1..NumPolicies
              /\ \A q \in 1..NumPolicies : q < e.idx <=> Returned(r, q, j)
              /\ \A i \in At(r, "start", "route") : i > j
        /\ Is(e, "start", "route") =>
              \A q \in 1..NumPolicies : Returned(r, q, j)

\* a request went through a registered interceptor and every policy and its
\* handler was called
C8_Witness ==
    \E r \in Requests :
        /\ Len(chain[r]) > 1
        /\ At(r, "start", "route") # {}
        /\ pc[r] = "done"

(***************************************************************************)
(* C9.  Once a policy or the handler has thrown, no further policy and not *)
(* the handler is called for that request: error handling ends the layer,  *)
(* by raising or by returning.                                             *)
(***************************************************************************)
C9_ErrorHandlingEndsLayer ==
    \A r \in Requests :
        \A i \in At(r, "throw", "policy") \cup At(r, "throw", "route") :
            /\ \A j \in DOMAIN log[r] : j > i => ~CallsForward(r, j)
            /\ ExitAfter(r, i) = 0 => pc[r] \in {"policyError", "routeError"}
            /\ ExitAfter(r, i) # 0 => ~InLayer(r)

\* the first policy threw, the error was swallowed, and the request, which
\* went through a registered interceptor, is over
C9_Witness ==
    \E r \in Requests : \E i \in At(r, "throw", "policy") :
        /\ pc[r] = "done"
        /\ Len(chain[r]) > 1
        /\ log[r][i].idx = 1
        /\ log[r][ExitAfter(r, i)].val = "none"

(***************************************************************************)
(* C10.  The built-in interceptor is the first of every request; when the  *)
(* inner chain raises, it raises the error again unless a response was     *)
(* already produced, in which case it suppresses the error.                *)
(***************************************************************************)
C10_SuppressedIffResponse ==
    \A r \in Requests :
        /\ chain[r] # <<>> => chain[r][1] = "builtin"
        /\ pc[r] = "done" =>
              \A i \in At(r, "catch", "icept") :
                  log[r][i].idx = 1 =>
                      (outcome[r] = "returned" <=> Produced(res[r], outerInitial[r]))

\* C10 as amended: the built-in interceptor is the first of every request; when
\* the inner chain raises, it suppresses the error if and only if
\* res.errorResult is truthy, which it is only after the handler threw and the
\* error handler returned a truthy value; otherwise it raises the error again,
\* a response having been produced or not.
C10_SuppressedIffErrorResult ==
    \A r \in Requests :
        /\ chain[r] # <<>> => chain[r][1] = "builtin"
        /\ pc[r] = "done" =>
              \A i \in At(r, "catch", "icept") :
                  log[r][i].idx = 1 =>
                      (outcome[r] = "returned" <=> res[r].errorResult = "true")
        /\ res[r].errorResult = "true" =>
              \E i \in At(r, "throw", "route") : log[r][i + 2].val = "true"

\* the handler threw, the error handler returned true, and the built-in
\* interceptor caught the error and returned
C10_Witness ==
    \E r \in Requests :
        /\ pc[r] = "done"
        /\ outcome[r] = "returned"
        /\ \E i \in At(r, "catch", "icept") : log[r][i].idx = 1

(***************************************************************************)
(* Reading the per-request context.                                        *)
(***************************************************************************)
\* what req.policyResults(policyFn) gives request r, once fullRouterFn has set it
PolicyResultsOf(r, policyFn) ==
    policyResults(PolicyKeys, fn[AllResultsOf(r)].allResults, policyFn)

\* the value policy q of request r returned, undefined while it has not
ReturnedValue(r, q) ==
    LET ends == {i \in At(r, "end", "policy") : log[r][i].idx = q}
    IN IF ends = {} THEN Undefined ELSE log[r][CHOOSE i \in ends : TRUE].val

(***************************************************************************)
(* C11.  During a request, req.policyResults(i) for a number i gives the   *)
(* value the policy at index i of the chain returned, once it has          *)
(* completed, and req.policyResults(P) for a policy type P of the chain    *)
(* the value the instance of P returned; for a policy that has not         *)
(* completed yet, or a type that is not in the chain, it gives undefined.  *)
(***************************************************************************)
C11_PolicyResultsByIndexAndType ==
    \A r \in Requests : At(r, "enter", "layer") # {} =>
        /\ \A q \in 1..NumPolicies :
              /\ PolicyResultsOf(r, <<"number", q - 1>>) = ReturnedValue(r, q)
              /\ PolicyKeys[q] \in PolicyTypes =>
                    PolicyResultsOf(r, <<"type", PolicyKeys[q]>>) = ReturnedValue(r, q)
        /\ PolicyResultsOf(r, <<"number", NumPolicies>>) = Undefined
        /\ \A P \in PolicyTypes :
              (\A q \in 1..NumPolicies : PolicyKeys[q] # P) =>
                  PolicyResultsOf(r, <<"type", P>>) = Undefined

\* the handler of a request is running, every policy of the chain has returned
\* and the result of the last one is read by its type
C11_Witness ==
    \E r \in Requests :
        /\ pc[r] = "route"
        /\ PolicyResultsOf(r, <<"type", PolicyKeys[NumPolicies]>>) = <<"v", r, NumPolicies>>
        /\ PolicyResultsOf(r, <<"number", 0>>) = <<"v", r, 1>>

(***************************************************************************)
(* C12.  The context of a request is never shared: however the requests    *)
(* in flight (on one route or on several) interleave at the awaits of      *)
(* their policies and handlers, the policy results, the requestIndex and   *)
(* the routeMethodName a request sees are those written for that request,  *)
(* and every request has a requestIndex different from, and greater than,  *)
(* that of every request that began before it.                             *)
(***************************************************************************)
C12_ContextNeverShared ==
    \A r \in Requests : pc[r] # "idle" =>
        /\ reqIdx[r] \in 1..requestIndex
        /\ routeMethodName[r] = <<"Controller", route[r]>>
        /\ \A p \in Requests : p < r => 0 < reqIdx[p] /\ reqIdx[p] < reqIdx[r]
        /\ At(r, "enter", "layer") # {} =>
              \A i \in 0..NumPolicies :
                  LET seen == PolicyResultsOf(r, <<"number", i>>)
                  IN seen # Undefined => seen[2] = r /\ seen = ReturnedValue(r, i + 1)

\* two requests on different routes are in flight at once, one at the await of
\* its handler and the other at the await of its second policy, each with the
\* policy results of its own
C12_Witness ==
    \E r, p \in Requests :
        /\ r # p /\ route[r] # route[p]
        /\ pc[r] = "route" /\ pc[p] = "policy" /\ fn[p].q > 1
        /\ PolicyResultsOf(r, <<"number", 0>>) = <<"v", r, 1>>
        /\ PolicyResultsOf(p, <<"number", 0>>) = <<"v", p, 1>>

(***************************************************************************)
(* flattenPolicies.                                                        *)
(*                                                                         *)
(* A policy descriptor is a policy type (1..NumPolicyCtors), whose         *)
(* metadata may declare sub-policies, or a policy given as a plain         *)
(* function (0), which declares none.  Descriptors are compared by         *)
(* identity (===).                                                         *)
(***************************************************************************)
PolicyCtors == 1..NumPolicyCtors

PolicyDescriptors == 0..NumPolicyCtors

\* the sequences over S of length n at most
SeqsUpTo(S, n) == UNION {[1..k -> S] : k \in 0..n}

\* what the metadata of the policy types may declare
PolicyMetas == [PolicyCtors -> SeqsUpTo(PolicyCtors, MaxNested)]

\* isPolicyCtor(desc): a constructor whose prototype has a handle method
isPolicyCtor(desc) == desc \in PolicyCtors

\* a walk that never looks into the metadata of a policy type
NestedPolicies_None(meta, policy) == <<>>

\* policyMeta.policies of a policy type; a plain function is not looked into
NestedPolicies(meta, policy) == IF isPolicyCtor(policy) THEN meta[policy] ELSE <<>>

\* a loop over aggregate that never finds the policy
Found_Never(agg, policy) == FALSE

\* the loop over aggregate: aggregate[q] === policy for some q
Found(agg, policy) == \E q \in DOMAIN agg : agg[q] = policy

\* a run that ended with RangeError: Maximum call stack size exceeded
Overflowed == [ran |-> TRUE, threw |-> TRUE, list |-> <<>>]

\* flattenPolicies_recursive(descriptors, aggregate): for each policy in order,
\* first the sub-policies its type declares, then the policy itself unless
\* aggregate holds it already.  The recursion does not look at aggregate, so
\* coming to a policy while the walk of its own sub-policies is in progress
\* repeats that walk without end: the call stack overflows.
RECURSIVE flattenPolicies_recursive(_, _, _, _)
flattenPolicies_recursive(meta, descs, agg, inProgress) ==
    IF descs = <<>> THEN [ran |-> TRUE, threw |-> FALSE, list |-> agg]
    ELSE LET policy == Head(descs)
             inner == IF policy \in inProgress THEN Overflowed
                      ELSE flattenPolicies_recursive(meta, NestedPolicies(meta, policy),
                                                     agg, inProgress \cup {policy})
         IN IF inner.threw THEN Overflowed
            ELSE flattenPolicies_recursive(
                     meta, Tail(descs),
                     IF Found(inner.list, policy) THEN inner.list
                     ELSE Append(inner.list, policy),
                     inProgress)

\* flattenPolicies(descriptors): the walk from an empty aggregate
flattenPolicies(meta, descs) == flattenPolicies_recursive(meta, descs, <<>>, {})

InitFlatten ==
    /\ policyMeta \in PolicyMetas
    /\ descriptors \in SeqsUpTo(PolicyDescriptors, MaxDescriptors)
    /\ aggregate = NotRun
    /\ again = NotRun
    /\ NoRequests /\ NoReflection /\ NoQuery /\ NoDbOrCrud

\* flattenPolicies(descriptors)
FlattenPolicies ==
    /\ ~aggregate.ran
    /\ aggregate' = flattenPolicies(policyMeta, descriptors)
    /\ UNCHANGED <<outsideFlatten, policyMeta, descriptors, again>>

\* flattenPolicies(flattenPolicies(descriptors)): the outer call is not made when
\* the inner one threw
FlattenAgain ==
    /\ aggregate.ran /\ ~again.ran
    /\ again' = IF aggregate.threw THEN Overflowed
                ELSE flattenPolicies(policyMeta, aggregate.list)
    /\ UNCHANGED <<outsideFlatten, policyMeta, descriptors, aggregate>>

NextFlatten == FlattenPolicies \/ FlattenAgain

SpecFlatten == InitFlatten /\ [][NextFlatten]_vars

(***************************************************************************)
(* Reading a list of policies.                                             *)
(***************************************************************************)
\* the sub-policies the descriptor p declares
Declares(meta, p) == IF p \in DOMAIN meta THEN meta[p] ELSE <<>>

\* the position of the first x in list, 0 when it holds none
IndexOf(list, x) ==
    IF \E i \in DOMAIN list : list[i] = x
    THEN CHOOSE i \in DOMAIN list : list[i] = x /\ \A j \in 1..(i - 1) : list[j] # x
    ELSE 0

NoDuplicates(list) == \A i, j \in DOMAIN list : list[i] = list[j] => i = j

\* every sub-policy of an element of the list is in the list before it
SubPoliciesFirst(meta, list) ==
    \A i \in DOMAIN list :
        \A k \in DOMAIN Declares(meta, list[i]) :
            \E j \in 1..(i - 1) : list[j] = Declares(meta, list[i])[k]

\* the policies reached from the set S in n steps at most
RECURSIVE ReachedIn(_, _, _)
ReachedIn(meta, S, n) ==
    IF n = 0 THEN S
    ELSE ReachedIn(meta,
                   S \cup UNION {{Declares(meta, p)[k] :
                                     k \in DOMAIN Declares(meta, p)} : p \in S},
                   n - 1)

\* every policy reachable from the list, directly or through sub-policies
Reachable(meta, list) == ReachedIn(meta, {list[i] : i \in DOMAIN list}, NumPolicyCtors)

\* the depth-first walk of the list: for each element the walk of its
\* sub-policies, then the element (defined when no policy reaches itself)
RECURSIVE DepthFirstWalk(_, _)
DepthFirstWalk(meta, list) ==
    IF list = <<>> THEN <<>>
    ELSE DepthFirstWalk(meta, Declares(meta, Head(list))) \o <<Head(list)>>
         \o DepthFirstWalk(meta, Tail(list))

\* the list without the elements that occurred in it before
FirstOccurrences(list) ==
    LET keep == {i \in DOMAIN list : \A j \in 1..(i - 1) : list[j] # list[i]}
        RECURSIVE Pick(_)
        Pick(i) == IF i > Len(list) THEN <<>>
                   ELSE (IF i \in keep THEN <<list[i]>> ELSE <<>>) \o Pick(i + 1)
    IN Pick(1)

(***************************************************************************)
(* C16.  Policy flattening is idempotent: flattening the result of         *)
(* flattenPolicies(L) gives that result again (as flattenPolicies(L)       *)
(* ends, so does flattenPolicies(flattenPolicies(L))), and flattening a    *)
(* list that is flat (every sub-policy of an element is in it before the   *)
(* element) and free of duplicates returns its elements in their order.    *)
(***************************************************************************)
C16_FlattenIdempotent ==
    /\ again.ran => again = aggregate
    /\ aggregate.ran /\ SubPoliciesFirst(policyMeta, descriptors)
                     /\ NoDuplicates(descriptors) =>
           ~aggregate.threw /\ aggregate.list = descriptors

\* a list that was not flat has been flattened, and its result flattened again
C16_Witness ==
    /\ again.ran /\ ~again.threw
    /\ Len(descriptors) = MaxDescriptors
    /\ Len(aggregate.list) > Len(descriptors)

(***************************************************************************)
(* C17.  In the list flattenPolicies returns, every policy reachable from  *)
(* the input, directly or through declared sub-policies, occurs exactly    *)
(* once, at the place of its first occurrence in the depth-first walk of   *)
(* the input, and every declared sub-policy of a policy occurs before that *)
(* policy: a policy reachable through two parents is in the chain once,    *)
(* before both.                                                            *)
(***************************************************************************)
C17_EachReachablePolicyOnce ==
    aggregate.ran /\ ~aggregate.threw =>
        /\ NoDuplicates(aggregate.list)
        /\ {aggregate.list[i] : i \in DOMAIN aggregate.list}
              = Reachable(policyMeta, descriptors)
        /\ SubPoliciesFirst(policyMeta, aggregate.list)
        /\ aggregate.list = FirstOccurrences(DepthFirstWalk(policyMeta, descriptors))

\* the list names two policy types that both declare a third one, which is in
\* the result once, before both
C17_Witness ==
    /\ aggregate.ran /\ ~aggregate.threw
    /\ Len(descriptors) = MaxDescriptors
    /\ \E a, b, c \in PolicyCtors :
          /\ a # b /\ a # c /\ b # c
          /\ descriptors[1] = a /\ descriptors[MaxDescriptors] = b
          /\ IndexOf(policyMeta[a], c) > 0 /\ IndexOf(policyMeta[b], c) > 0
          /\ IndexOf(aggregate.list, c) < IndexOf(aggregate.list, a)
          /\ IndexOf(aggregate.list, a) < IndexOf(aggregate.list, b)

(***************************************************************************)
(* Reflection of the controller tree into the dispatch table.              *)
(*                                                                         *)
(* The metadata of a controller type is drawn when the walk comes to the   *)
(* type, and a declared route when the loop of routes comes to it: the     *)
(* code reads each of them once, in this order.                            *)
(***************************************************************************)
Controllers == 1..NumControllers

\* The key of a controller type in this.controllers[controllerFn]: a function
\* used as a property key is converted to a string, the source text of the
\* function.  Every type has a text of its own but the last one, a class of
\* another module with the text of type 1.
ControllerKey(c) == IF c = NumControllers THEN 1 ELSE c

\* path segments the metadata names
Segments == <<"users", "posts", "tags", "likes", "files", "notes">>

\* ControllerMetadata.path of a controller type; type 1 declares none
PathOf(c) == IF c = 1 THEN <<>> ELSE <<Segments[c]>>

\* a class without the @Controller decorator: Reflect.getOwnMetadata gives undefined
Undecorated == [decorated |-> FALSE, path |-> <<>>, policies |-> <<>>, controllers |-> <<>>]

\* the policies a server or a controller may declare: none, or the first
\* types in their order
LevelPolicies(first) ==
    {SubSeq(<<first, first + 1>>, 1, n) : n \in 0..MaxLevelPolicies}

\* what the @Controller decorator of the type c may have been given
ControllerMetasOf(c) ==
    [decorated : {TRUE}, path : {PathOf(c)},
     policies : LevelPolicies(2),
     controllers : SeqsUpTo(Controllers, MaxChildControllers)]

\* The route entries a controller may declare (@Get, @Post on a route function):
\* two whose handler is a method of the controller, one that names no property
\* of the controller, one that names a property that is not a function, and one
\* whose metadata sets no method.
RouteEntries ==
    {[routeFnName |-> "index", method |-> "get", path |-> <<>>, policies |-> <<>>],
     [routeFnName |-> "create", method |-> "post", path |-> <<"new">>,
      policies |-> <<NumPolicyCtors>>],
     [routeFnName |-> "ghost", method |-> "get", path |-> <<"ghost">>, policies |-> <<>>],
     [routeFnName |-> "field", method |-> "get", path |-> <<"field">>, policies |-> <<>>],
     [routeFnName |-> "index", method |-> "undefined", path |-> <<"any">>,
      policies |-> <<>>]}

\* controller[routeFnName] of a controller instance
HandlerOf(routeFnName) ==
    CASE routeFnName \in {"index", "create"} -> "function"
      [] routeFnName = "field" -> "value"
      [] OTHER -> "undefined"

\* The hooks a controller instance has, one case at a time: none; a
\* transformRoutePathPart, a transformRoutePath or a transformRoutePolicies that
\* returns a value of its own; a transformRoute that returns false, that
\* returns undefined, or that names another route function and another path
\* in the route object and returns true.
HookChoices == {"none", "pathPart", "path", "policies", "veto", "undefined", "rename"}

\* controller.transformRoutePathPart(routeFnName, pathPart) || pathPart
transformRoutePathPart(h, pathPart) == IF h = "pathPart" THEN <<"hooked">> ELSE pathPart

\* controller.transformRoutePath(routeFnName, fullPath) || fullPath
transformRoutePath(h, fullPath) == IF h = "path" THEN <<"hooked", "path">> ELSE fullPath

\* controller.transformRoutePolicies(routeFnName, fullPath, policyDescriptors)
\* || policyDescriptors
transformRoutePolicies(h, policyDescriptors) ==
    IF h = "policies" THEN <<1>> ELSE policyDescriptors

\* controller.transformRoute(route): its result and the route object it leaves
transformRoute(h, rt) ==
    CASE h = "veto" -> [result |-> "false", route |-> rt]
      [] h = "undefined" -> [result |-> "undefined", route |-> rt]
      [] h = "rename" -> [result |-> "true",
                          route |-> [rt EXCEPT !.routeFnName = "index",
                                               !.fullPath = <<"renamed">>]]
      [] OTHER -> [result |-> "none", route |-> rt]

\* a veto by every result that is not true
Vetoes_Falsy(result) == result \in {"false", "undefined"}

\* typeof result === 'boolean' && !result
Vetoes(result) == result = "false"

\* joinRoutePaths(...parts): the parts in their order, empty ones left out
RECURSIVE joinRoutePaths(_)
joinRoutePaths(parts) ==
    IF parts = <<>> THEN <<>> ELSE Head(parts) \o joinRoutePaths(Tail(parts))

\* getParentPolicyDescriptors(parentMeta): the policies of the ancestors,
\* outermost first
RECURSIVE getParentPolicyDescriptors(_)
getParentPolicyDescriptors(parentMeta) ==
    IF parentMeta = <<>> THEN <<>>
    ELSE Head(parentMeta).policies \o getParentPolicyDescriptors(Tail(parentMeta))

\* the list with the policies of the route put first
PolicyDescriptorsOf_RouteFirst(server, parentMeta, controllerMeta, routeMeta) ==
    routeMeta.policies \o server.policies \o getParentPolicyDescriptors(parentMeta)
    \o controllerMeta.policies

\* let policyDescriptors = [...routerMeta.policies, ...parents, ...controller,
\* ...route]
PolicyDescriptorsOf(server, parentMeta, controllerMeta, routeMeta) ==
    server.policies \o getParentPolicyDescriptors(parentMeta)
    \o controllerMeta.policies \o routeMeta.policies

\* a handler looked up without a test of what it is
HandlerError_None(handler) == "none"

\* if (!controller[routeFnName]) throw ...; if (typeof controller[routeFnName]
\* !== 'function') throw ...
HandlerError(handler) ==
    CASE handler = "undefined" -> "noHandler"
      [] handler # "function" -> "notFunction"
      [] OTHER -> "none"

\* what a call of addRoute comes to: the route added, the route skipped, or an
\* error thrown; from is what the call was given
Outcome(kind, error, rt, from) ==
    [kind |-> kind, error |-> error, route |-> [rt EXCEPT !.kind = kind, !.from = from]]

\* addRoute(parentMeta, controller, routeFnName, controllerMeta, routeMeta) for a
\* controller of type c with the hooks h under the server metadata; from is what
\* the route was made of, kept with the route for reading it later
addRoute(server, meta, parentMeta, c, controllerMeta, routeMeta, h, from) ==
    LET methodName == <<c, routeMeta.routeFnName>>
        pathPart == transformRoutePathPart(h, routeMeta.path)
        joined == joinRoutePaths(<<server.path>>
                                 \o [i \in DOMAIN parentMeta |-> parentMeta[i].path]
                                 \o <<controllerMeta.path, pathPart>>)
        fullPath == transformRoutePath(h, joined)
        policyDescriptors ==
            transformRoutePolicies(
                h, PolicyDescriptorsOf(server, parentMeta, controllerMeta, routeMeta))
        hooked == transformRoute(h, [routeFnName |-> routeMeta.routeFnName,
                                     fullPath |-> fullPath,
                                     policyDescriptors |-> policyDescriptors])
        flat == flattenPolicies(meta, hooked.route.policyDescriptors)
        failed == HandlerError(HandlerOf(hooked.route.routeFnName))
        added == [kind |-> "added",
                  method |-> routeMeta.method,
                  fullPath |-> hooked.route.fullPath,
                  policies |-> flat.list,
                  routeMethodName |-> methodName,
                  routeFnName |-> hooked.route.routeFnName,
                  from |-> from]
    IN IF routeMeta.method = "undefined" THEN Outcome("threw", "noMethod", NoRoute, from)
       ELSE IF Vetoes(hooked.result) THEN Outcome("skipped", "none", NoRoute, from)
       ELSE IF flat.threw THEN Outcome("threw", "RangeError", NoRoute, from)
       ELSE IF failed # "none" THEN Outcome("threw", failed, NoRoute, from)
       ELSE Outcome("added", "none", added, from)

\* the declarations of sub-policies the reflection is run with: type 1 declares
\* nothing or the last type
ReflectPolicyMetas ==
    {m \in PolicyMetas : /\ m[1] \in {<<>>, <<NumPolicyCtors>>}
                         /\ \A p \in PolicyCtors : p > 1 => m[p] = <<>>}

InitReflect ==
    /\ policyMeta \in ReflectPolicyMetas
    /\ routerMeta \in [path : {<<"api">>},
                       policies : LevelPolicies(1),
                       controllers : SeqsUpTo(Controllers, MaxRootControllers)]
    /\ controllers = {}
    /\ controllersReflected = 0
    /\ routesReflected = 0
    /\ stack = <<>>
    /\ current = NoCurrent
    /\ routesAdded = 0
    /\ lastRoute = NoRoute
    /\ status = [phase |-> "constructed", error |-> "none", culprit |-> 0]
    /\ walked = {}
    /\ descriptors = <<>> /\ aggregate = NotRun /\ again = NotRun
    /\ NoRequests /\ NoQuery /\ NoDbOrCrud

\* a call of reflectRoutes(controllers, parentControllers) at its first controller
Frame(list, parentControllers, parentMeta) ==
    [controllers |-> list, parentControllers |-> parentControllers,
     parentMeta |-> parentMeta, q |-> 1]

\* an error thrown during the reflection: nothing catches it on the way out of
\* reflectServerRoutes
Throw(error, c) ==
    /\ status' = [phase |-> "failed", error |-> error, culprit |-> c]
    /\ stack' = <<>>
    /\ current' = NoCurrent

\* reflectServerRoutes(app), up to the first controller
ReflectServerRoutes ==
    /\ status.phase = "constructed"
    /\ status' = [status EXCEPT !.phase = "reflecting"]
    /\ stack' = <<Frame(routerMeta.controllers, <<>>, <<>>)>>
    /\ UNCHANGED <<outsideReflect, policyMeta, routerMeta, controllers,
                   controllersReflected, routesReflected, current, routesAdded,
                   walked>>
    /\ lastRoute' = NoRoute

\* reflectControllerRoutes(parentControllers, controllerFn) up to its loop of
\* routes: the test for a controller passed twice, the instance and the
\* metadata (meta)
ReflectControllerRoutes(meta) ==
    /\ status.phase = "reflecting" /\ current = NoCurrent /\ stack # <<>>
    /\ stack[Len(stack)].q <= Len(stack[Len(stack)].controllers)
    /\ LET top == stack[Len(stack)]
           c == top.controllers[top.q]
       IN /\ meta \in ControllerMetasOf(c) \cup {Undecorated}
          /\ IF ControllerKey(c) \in controllers
             THEN /\ Throw("twice", c)
                  /\ UNCHANGED <<controllers, controllersReflected, walked>>
             ELSE /\ controllers' = controllers \cup {ControllerKey(c)}
                  /\ walked' = walked \cup {c}
                  /\ IF ~meta.decorated
                     THEN /\ Throw("noMetadata", c)
                          /\ UNCHANGED controllersReflected
                     ELSE /\ controllersReflected' = controllersReflected + 1
                          /\ current' = [ctrl |-> c, meta |-> meta, w |-> 1]
                          /\ UNCHANGED <<stack, status>>
    /\ lastRoute' = NoRoute
    /\ UNCHANGED <<outsideReflect, policyMeta, routerMeta, routesReflected,
                   routesAdded>>

\* one turn of the loop of routes: addRoute for the next declared entry
\* (routeMeta) of a controller with the hooks h
AddRoute(routeMeta, h) ==
    /\ current # NoCurrent /\ current.w <= MaxRoutes
    /\ LET top == stack[Len(stack)]
           from == [parentControllers |-> top.parentControllers,
                    ctrl |-> current.ctrl, entry |-> routeMeta, hooks |-> h,
                    levels |-> <<routerMeta.policies>>
                               \o [i \in DOMAIN top.parentMeta |->
                                       top.parentMeta[i].policies]
                               \o <<current.meta.policies, routeMeta.policies>>]
           out == addRoute(routerMeta, policyMeta, top.parentMeta, current.ctrl,
                           current.meta, routeMeta, h, from)
       IN /\ lastRoute' = out.route
          /\ IF out.kind = "threw"
             THEN /\ Throw(out.error, current.ctrl)
                  /\ UNCHANGED <<routesReflected, routesAdded>>
             ELSE /\ current' = [current EXCEPT !.w = @ + 1]
                  /\ UNCHANGED <<stack, status>>
                  /\ IF out.kind = "added"
                     THEN /\ routesReflected' = routesReflected + 1
                          /\ routesAdded' = routesAdded + 1
                     ELSE UNCHANGED <<routesReflected, routesAdded>>
    /\ UNCHANGED <<outsideReflect, policyMeta, routerMeta, controllers,
                   controllersReflected, walked>>

\* the controller declares no more routes: reflectRoutes(meta.controllers || [],
\* [...parentControllers, controllerFn])
ReflectChildControllers ==
    /\ current # NoCurrent
    /\ LET top == stack[Len(stack)] IN
       stack' = [stack EXCEPT ![Len(stack)].q = @ + 1]
                \o <<Frame(current.meta.controllers,
                           Append(top.parentControllers, current.ctrl),
                           Append(top.parentMeta, current.meta))>>
    /\ current' = NoCurrent
    /\ UNCHANGED <<outsideReflect, policyMeta, routerMeta, controllers,
                   controllersReflected, routesReflected, routesAdded, status,
                   walked>>
    /\ lastRoute' = NoRoute

\* the loop of reflectRoutes is through its controllers: the call returns
ReturnFromReflectRoutes ==
    /\ status.phase = "reflecting" /\ current = NoCurrent /\ stack # <<>>
    /\ stack[Len(stack)].q > Len(stack[Len(stack)].controllers)
    /\ stack' = SubSeq(stack, 1, Len(stack) - 1)
    /\ UNCHANGED <<outsideReflect, policyMeta, routerMeta, controllers,
                   controllersReflected, routesReflected, current, routesAdded,
                   status, walked>>
    /\ lastRoute' = NoRoute

\* a router mounted whether or not the reflection is through
MayMount_Always(phase, calls) == phase \in {"reflecting", "failed"}

\* app.use(this.router.expressRouter) is the statement after reflectRoutes: it is
\* come to when the outermost call has returned
MayMount(phase, calls) == phase = "reflecting" /\ calls = <<>>

\* the rest of reflectServerRoutes: the router is mounted on the application
MountRouter ==
    /\ MayMount(status.phase, stack)
    /\ status' = [status EXCEPT !.phase = "mounted"]
    /\ UNCHANGED <<outsideReflect, policyMeta, routerMeta, controllers,
                   controllersReflected, routesReflected, stack, current,
                   routesAdded, walked>>
    /\ lastRoute' = NoRoute

\* Server.listen(): the application, with what is mounted on it, serves
Listen ==
    /\ status.phase = "mounted"
    /\ status' = [status EXCEPT !.phase = "listening"]
    /\ UNCHANGED <<outsideReflect, policyMeta, routerMeta, controllers,
                   controllersReflected, routesReflected, stack, current,
                   routesAdded, walked>>
    /\ lastRoute' = NoRoute

NextReflect ==
    \/ ReflectServerRoutes
    \/ \E meta \in UNION {ControllerMetasOf(c) : c \in Controllers} \cup {Undecorated} :
          ReflectControllerRoutes(meta)
    \/ \E routeMeta \in RouteEntries, h \in HookChoices : AddRoute(routeMeta, h)
    \/ ReflectChildControllers
    \/ ReturnFromReflectRoutes
    \/ MountRouter
    \/ Listen

SpecReflect == InitReflect /\ [][NextReflect]_vars

(***************************************************************************)
(* Reading the reflection.                                                 *)
(***************************************************************************)
\* the walk is about to call reflectControllerRoutes
AtController ==
    /\ status.phase = "reflecting" /\ current = NoCurrent /\ stack # <<>>
    /\ stack[Len(stack)].q <= Len(stack[Len(stack)].controllers)

\* the controller type that call is for
NextController == stack[Len(stack)].controllers[stack[Len(stack)].q]

\* the reflection was stopped by the error of a controller passed twice
ReportedTwice == status.phase = "failed" /\ status.error = "twice"

\* C13: a controller type that occurs at a second position of the tree always
\* stops the reflection with the error naming it, and the error is raised for
\* no type but one that the walk has come to before: two distinct types are
\* never reported as duplicates of each other.
C13_DuplicateDetectedByIdentity ==
    /\ [](ReportedTwice => status.culprit \in walked)
    /\ [][AtController /\ NextController \in walked
          => ReportedTwice' /\ status'.culprit = NextController]_vars

\* the ordered join the route of from is declared with: the base path of the
\* server, the paths of the ancestors outermost first, the path of the
\* controller, the path part of the route
RECURSIVE PathsOf(_)
PathsOf(types) ==
    IF types = <<>> THEN <<>> ELSE PathOf(Head(types)) \o PathsOf(Tail(types))

DeclaredPath(from) ==
    routerMeta.path \o PathsOf(from.parentControllers) \o PathOf(from.ctrl)
    \o from.entry.path

\* the walk has met no controller type twice
NoDuplicateTypes == ~(ReportedTwice /\ status.culprit \in walked)

\* the errors of a declaration that cannot be registered
DeclarationErrors == {"noMetadata", "noMethod", "noHandler", "notFunction", "RangeError"}

\* C14: in a tree without duplicate controller types the reflection is stopped
\* by nothing but a declaration that cannot be registered, so every declared
\* entry that no hook vetoes becomes one route; a route that no hook touched is
\* registered under the ordered join of the base path of the server, the paths
\* of the ancestors outermost first, the path of the controller and the path
\* part of the route; routesReflected is the number of registered routes and
\* controllersReflected the number of controllers reflected.
C14_OneRoutePerDeclaredEntry ==
    /\ status.phase = "failed" /\ NoDuplicateTypes => status.error \in DeclarationErrors
    /\ lastRoute.kind = "added" /\ lastRoute.from.hooks = "none"
       => lastRoute.fullPath = DeclaredPath(lastRoute.from)
    /\ routesReflected = routesAdded
    /\ status.phase # "failed" => controllersReflected = Cardinality(walked)

\* the levels of from the policy p is declared at: 1 the server, then the
\* ancestors outermost first, the controller, and last the route
LevelsOf(from, p) ==
    {i \in DOMAIN from.levels : \E j \in DOMAIN from.levels[i] : from.levels[i][j] = p}

\* the levels of from, one after the other
RECURSIVE Concat(_)
Concat(lists) == IF lists = <<>> THEN <<>> ELSE Head(lists) \o Concat(Tail(lists))

\* a route was registered whose list of policies no hook replaced
RegisteredUnhooked ==
    lastRoute.kind = "added" /\ lastRoute.from.hooks \notin {"policies"}

\* p runs before q in the chain of the registered route
RunsBefore(p, q) ==
    /\ IndexOf(lastRoute.policies, p) > 0
    /\ IndexOf(lastRoute.policies, q) > IndexOf(lastRoute.policies, p)

\* q is declared, and at no level but ones further in than the level i
DeclaredOnlyInside(from, q, i) ==
    LevelsOf(from, q) # {} /\ \A j \in LevelsOf(from, q) : j > i

\* q is reached from a policy declared at level i or further out through the
\* declarations of sub-policies
SubPolicyOfOuter(from, q, i) ==
    \E j \in 1..i : \E k \in DOMAIN from.levels[j] :
        from.levels[j][k] # q /\ q \in Reachable(policyMeta, <<from.levels[j][k]>>)

\* C15 as stated: the chain of a registered route is the flattening of the
\* levels in their order, and a policy declared at an outer level never runs
\* after a distinct policy declared only at an inner level.
C15_OuterNeverAfterInner ==
    RegisteredUnhooked =>
        /\ lastRoute.policies = FirstOccurrences(DepthFirstWalk(policyMeta, Concat(lastRoute.from.levels)))
        /\ \A p, q \in PolicyCtors :
               \A i \in LevelsOf(lastRoute.from, p) :
                   p # q /\ DeclaredOnlyInside(lastRoute.from, q, i) => ~RunsBefore(q, p)

\* C15: when no hook replaces the list, the chain of a registered route is the
\* flattening of the levels in their order (server, ancestors outermost first,
\* controller, route), and a policy declared at an outer level runs after a
\* distinct policy declared only at inner levels only when that policy is a
\* sub-policy, direct or not, of a policy declared no further in.
C15_PolicyChainOrder ==
    RegisteredUnhooked =>
        /\ lastRoute.policies = FirstOccurrences(DepthFirstWalk(policyMeta, Concat(lastRoute.from.levels)))
        /\ \A p, q \in PolicyCtors :
               \A i \in LevelsOf(lastRoute.from, p) :
                   /\ p # q
                   /\ DeclaredOnlyInside(lastRoute.from, q, i)
                   /\ ~SubPolicyOfOuter(lastRoute.from, q, i)
                   => ~RunsBefore(q, p)

\* a route under an ancestor was registered whose chain has a policy of the
\* server and, after it, a policy that only the route declares
C15_Witness ==
    /\ RegisteredUnhooked
    /\ Len(lastRoute.from.levels) = 4
    /\ \E p, q \in PolicyCtors :
           /\ p # q
           /\ 1 \in LevelsOf(lastRoute.from, p)
           /\ DeclaredOnlyInside(lastRoute.from, q, 3)
           /\ RunsBefore(p, q)

\* the property name of the controller is missing or is not a function
HandlerMissing(name) == HandlerOf(name) # "function"

\* C18 as stated: reflection fails whenever a controller of the tree has no
\* metadata or a declared route names a handler that is missing or not a
\* function; such a route is neither registered nor skipped.
C18_NeverSilentlySkipped ==
    /\ current # NoCurrent => current.meta.decorated
    /\ lastRoute.kind \in {"added", "skipped"}
       => ~HandlerMissing(lastRoute.from.entry.routeFnName)

\* C18: reflection fails, and registers nothing for the route, whenever a
\* controller the walk comes to has no metadata, or a declared route that the
\* transformRoute hook of the controller does not veto names, after the hook,
\* a handler that is missing or not a function; a route is skipped only by the
\* veto of that hook, which is taken before the handler is looked up.
C18_FailsUnlessVetoed ==
    /\ current # NoCurrent => current.meta.decorated
    /\ lastRoute.kind = "added" => ~HandlerMissing(lastRoute.routeFnName)
    /\ lastRoute.kind = "skipped"
       => lastRoute.from.hooks = "veto" /\ lastRoute.from.entry.method # "undefined"
    /\ lastRoute.kind = "threw"
       => status.phase = "failed" /\ status.error \in DeclarationErrors
    /\ status.phase = "failed" => stack = <<>> /\ current = NoCurrent

\* a route whose handler is missing, of a controller whose transformRoute
\* returned undefined, stopped the reflection
C18_Witness ==
    /\ lastRoute.kind = "threw"
    /\ lastRoute.from.hooks = "undefined"
    /\ HandlerMissing(lastRoute.from.entry.routeFnName)
    /\ status.phase = "failed" /\ status.error = "noHandler"

\* the router is mounted on the application
Mounted == status.phase \in {"mounted", "listening"}

\* C19: when the reflection of a controller or of a route fails, the error
\* leaves reflectServerRoutes and the router is never mounted: a mounted router
\* holds the routes of a walk that came to its end without an error, and after
\* a failure the server stays failed.
C19_FailedNeverMounted ==
    /\ [](Mounted => /\ status.error = "none"
                     /\ stack = <<>> /\ current = NoCurrent
                     /\ \A i \in DOMAIN routerMeta.controllers :
                            routerMeta.controllers[i] \in walked
                     /\ controllersReflected = Cardinality(walked))
    /\ [][status.phase = "failed" => status'.phase = "failed"]_vars

\* the reflection failed after a route was registered, and the server stays
\* where the error left it
C19_Witness ==
    /\ status.phase = "failed" /\ status.error # "none"
    /\ routesAdded > 0
    /\ ~ENABLED MountRouter /\ ~ENABLED Listen

(***************************************************************************)
(* transformQueryWhere: the where-filter of a query, rewritten for the     *)
(* associations of the model.                                              *)
(***************************************************************************)
\* the ids of the rows of a table
Ids == {0, 5}

\* the value of a key of a filter: the key is absent, a bare id, or a related
\* object that carries an id
FieldValues == {Absent} \cup [kind : {"id", "object"}, id : Ids]

\* the where-filters transformQueryWhere is given
Filters == {NoFilter} \cup [defined : {TRUE}, fields : [Names -> FieldValues]]

\* what getTransforms pushes for a belongs-to property (fieldName is the name of
\* the property, columnName the foreign key) and for a has-one property
Transforms ==
    [type : {"belongs-to"}, fieldName : Names, columnName : Names]
    \cup [type : {"has-one"}, fieldName : Names, columnName : {"none"}]

\* a value read as a condition, every value passing
Truthy_Always(v) == TRUE

\* if (fieldVal), if (fieldVal[transform.foreignPkName]): a value read as a
\* condition; undefined and the number 0 are falsy, an object is truthy
Truthy(v) == v.kind = "object" \/ (v.kind = "id" /\ v.id # 0)

\* fieldVal[transform.foreignPkName]: the id a related object carries; a number
\* has no such property
ForeignPk(v) == IF v.kind = "object" THEN [kind |-> "id", id |-> v.id] ELSE Absent

\* one turn of the loop of transformQueryWhere, for the transform t on the
\* clone fields
TransformField(t, fields) ==
    LET fieldVal == fields[t.fieldName]
        columnVal == IF Truthy(ForeignPk(fieldVal)) THEN ForeignPk(fieldVal) ELSE fieldVal
    IN IF t.type = "belongs-to"
       THEN [threw |-> FALSE,
             fields |-> IF Truthy(fieldVal)
                        THEN [[fields EXCEPT ![t.columnName] = columnVal]
                                  EXCEPT ![t.fieldName] = Absent]
                        ELSE fields]
       ELSE [threw |-> Truthy(fieldVal), fields |-> fields]

\* the loop of transformQueryWhere over the transforms from the q-th on
RECURSIVE TransformFrom(_, _, _)
TransformFrom(ts, q, fields) ==
    IF q > Len(ts) THEN [threw |-> FALSE, fields |-> fields]
    ELSE LET step == TransformField(ts[q], fields)
         IN IF step.threw THEN step ELSE TransformFrom(ts, q + 1, step.fields)

\* this.transformQueryWhere(query)
transformQueryWhere(ts, q) ==
    IF ~q.defined THEN [ran |-> TRUE, threw |-> FALSE, query |-> q]
    ELSE LET out == TransformFrom(ts, 1, q.fields)
         IN [ran |-> TRUE, threw |-> out.threw,
             query |-> IF out.threw THEN NoFilter
                       ELSE [defined |-> TRUE, fields |-> out.fields]]

InitWhere ==
    /\ transforms \in SeqsUpTo(Transforms, MaxTransforms)
    /\ query \in Filters
    /\ transformed = NotTransformed
    /\ NoRequests /\ NoFlattenRun /\ NoReflection /\ NoDbOrCrud

\* the object the caller gave, after a loop that writes to that object itself
InputAfter_InPlace(input, out) == IF out.threw THEN input ELSE out.query

\* query = _.clone(query): the loop writes to a copy, the object the caller
\* gave keeps its keys and values
InputAfter(input, out) == input

\* a call of transformQueryWhere with the filter
TransformQueryWhere ==
    /\ ~transformed.ran
    /\ LET out == transformQueryWhere(transforms, query)
       IN /\ transformed' = out
          /\ query' = InputAfter(query, out)
    /\ UNCHANGED <<outsideWhere, transforms>>

NextWhere == TransformQueryWhere

SpecWhere == InitWhere /\ [][NextWhere]_vars

\* the id a value of a filter stands for: the bare id, or the id of the object
IdOf(v) == [kind |-> "id", id |-> v.id]

\* C20: for every belongs-to association and every filter that has its field,
\* as a related object carrying an id or as a bare id, the filter returned has
\* that id under the foreign-key column and does not have the field any more.
\* Read for a model of one association whose foreign-key column has another
\* name than its field, where no other transform and no clash of names touches
\* the two keys.
C20_BelongsToMapped ==
    transformed.ran /\ ~transformed.threw /\ query.defined =>
        \A i \in DOMAIN transforms :
            (/\ Len(transforms) = 1
             /\ transforms[i].type = "belongs-to"
             /\ transforms[i].fieldName # transforms[i].columnName
             /\ query.fields[transforms[i].fieldName] # Absent)
            => /\ transformed.query.fields[transforms[i].columnName]
                  = IdOf(query.fields[transforms[i].fieldName])
               /\ transformed.query.fields[transforms[i].fieldName] = Absent

\* no belongs-to transform reads or writes the key name of a filter
Untouched(name) ==
    \A j \in DOMAIN transforms :
        transforms[j].type = "belongs-to"
        => transforms[j].fieldName # name /\ transforms[j].columnName # name

\* C21: for every has-one association, a filter that has the field of the
\* association makes transformQueryWhere fail with an error, so that no
\* operation of DbImpl comes to its storage call with such a filter.  Read for
\* a field that no belongs-to association of the model touches.
C21_HasOneFieldFails ==
    transformed.ran /\ query.defined =>
        \A i \in DOMAIN transforms :
            (/\ transforms[i].type = "has-one"
             /\ Untouched(transforms[i].fieldName)
             /\ query.fields[transforms[i].fieldName] # Absent)
            => transformed.threw

(***************************************************************************)
(* splitOnWords of CrudController (and of SnakeCaseOrmTransformService,    *)
(* the same code): a name is a sequence of characters, a word too.         *)
(***************************************************************************)
\* the characters of the names: uppercase letters, lowercase letters, the
\* underscore
Uppercase == {"A"}
Lowercase == {"b", "c"}
Chars == Uppercase \cup Lowercase \cup {"_"}

\* no character read as an uppercase letter
IsUpper_Never(chr) == FALSE

\* chr.match(/[A-Z]/)
IsUpper(chr) == chr \in Uppercase

\* the loop of splitOnWords from the q-th character on, with the current word
\* and the words yielded so far
RECURSIVE SplitFrom(_, _, _, _)
SplitFrom(name, q, currentWord, yielded) ==
    LET flushed == IF currentWord # <<>> THEN Append(yielded, currentWord) ELSE yielded
    IN IF q > Len(name) THEN flushed
       ELSE IF IsUpper(name[q]) THEN SplitFrom(name, q + 1, <<name[q]>>, flushed)
       ELSE IF name[q] = "_" THEN SplitFrom(name, q + 1, <<>>, flushed)
       ELSE SplitFrom(name, q + 1, Append(currentWord, name[q]), yielded)

\* [...this.splitOnWords(name)]
splitOnWords(name) == SplitFrom(name, 1, <<>>, <<>>)

InitSplit ==
    /\ splitName \in SeqsUpTo(Chars, MaxNameLen)
    /\ splitWords = NotSplit
    /\ NoRouterOrWhere /\ NoOrm /\ NoTransaction /\ NoCrud

\* a run of splitOnWords to its end
SplitOnWords ==
    /\ ~splitWords.ran
    /\ splitWords' = [ran |-> TRUE, words |-> splitOnWords(splitName)]
    /\ UNCHANGED <<outsideSplit, splitName>>

NextSplit == SplitOnWords

SpecSplit == InitSplit /\ [][NextSplit]_vars

\* the name without its underscores
RECURSIVE WithoutUnderscores(_)
WithoutUnderscores(name) ==
    IF name = <<>> THEN <<>>
    ELSE (IF Head(name) = "_" THEN <<>> ELSE <<Head(name)>>)
         \o WithoutUnderscores(Tail(name))

\* the place of the i-th character of the name in the name without underscores
PlaceOf(name, i) == Cardinality({j \in 1..i : name[j] # "_"})

\* the places, in the concatenation of the words, where a word starts
RECURSIVE LengthOfAll(_)
LengthOfAll(words) == IF words = <<>> THEN 0 ELSE Len(Head(words)) + LengthOfAll(Tail(words))

WordStarts(words) == {1 + LengthOfAll(SubSeq(words, 1, k - 1)) : k \in DOMAIN words}

\* C30: for every name over letters and underscores, splitOnWords yields
\* non-empty words without an underscore; every uppercase letter of the name
\* starts a word, and so does every letter that follows an underscore; the
\* words, one after the other, are the name without its underscores; the
\* empty name and a name of underscores only yield no word.
C30_SplitOnWords ==
    splitWords.ran =>
        LET words == splitWords.words IN
        /\ \A k \in DOMAIN words :
               words[k] # <<>> /\ \A i \in DOMAIN words[k] : words[k][i] # "_"
        /\ Concat(words) = WithoutUnderscores(splitName)
        /\ \A i \in DOMAIN splitName :
               splitName[i] \in Uppercase => PlaceOf(splitName, i) \in WordStarts(words)
        /\ \A i \in DOMAIN splitName :
               i > 1 /\ splitName[i - 1] = "_" /\ splitName[i] # "_"
               => PlaceOf(splitName, i) \in WordStarts(words)
        /\ (\A i \in DOMAIN splitName : splitName[i] = "_") => words = <<>>

\* a name with underscores and an uppercase letter inside a run of letters was
\* split into three words or more
C30_Witness ==
    /\ splitWords.ran
    /\ Len(splitWords.words) >= 3
    /\ \E i \in DOMAIN splitName : splitName[i] = "_"
    /\ \E i \in DOMAIN splitName :
           i > 1 /\ splitName[i] \in Uppercase /\ splitName[i - 1] \in Lowercase

(***************************************************************************)
(* DbImpl.updateOrCreate.  Every await of the call is a step; the calls in *)
(* flight interleave at them.  What the storage answers is drawn at the    *)
(* step.                                                                   *)
(***************************************************************************)
\* the call c goes on to the step at
Goto(c, at) == tx' = [tx EXCEPT ![c].pc = at]

\* an error e is thrown inside the try block: the catch block sets failed and
\* comes to its rollback
Catch(c, e, raisedByStep) ==
    tx' = [tx EXCEPT ![c].pc = "rollback", ![c].failed = TRUE, ![c].error = e,
                     ![c].stepRaised = @ \/ raisedByStep]

\* let t = await this.transaction(transaction), before the try block
BeginTransaction(c, ok) ==
    /\ tx[c].pc = "idle"
    /\ tx' = [tx EXCEPT ![c] =
                 IF ok THEN [@ EXCEPT !.pc = "findOrCreate", !.acquired = TRUE]
                 ELSE [@ EXCEPT !.pc = "done", !.error = "transaction",
                                !.result = "raised"]]
    /\ UNCHANGED outsideTransaction

\* await this.findOrCreate(query, defaults, t); a created row is returned
FindOrCreate(c, answer) ==
    /\ tx[c].pc = "findOrCreate"
    /\ CASE answer = "raised" -> Catch(c, "findOrCreate", TRUE)
         [] answer = "created" ->
                tx' = [tx EXCEPT ![c].pc = "finally", ![c].row = "created"]
         [] OTHER -> Goto(c, "update")
    /\ UNCHANGED outsideTransaction

\* if (!worked): worked is the pair [affected, results] that update returns, and
\* a pair is truthy
UpdateFailed(affected) == FALSE

\* await this.update({ where: query }, defaults, false, t)
Update(c, raised, affected) ==
    /\ tx[c].pc = "update"
    /\ IF raised THEN Catch(c, "update", TRUE)
       ELSE IF UpdateFailed(affected) THEN Catch(c, "notUpdated", FALSE)
       ELSE Goto(c, "findOne")
    /\ UNCHANGED outsideTransaction

\* query.where of the object findOne is given: the object is _.merge({}, query,
\* defaults), the keys of the filter and of the defaults themselves, and has
\* no key where
ReReadWhere == "undefined"

\* the rows this.model.findOne answers with: with a where, a row that
\* satisfies it ("matching"); without one, the first row of the table,
\* whichever it is
FindOneRows(where) ==
    IF where = "undefined" THEN {"matching", "other"} ELSE {"matching"}

\* await this.findOne(_.merge({}, query, defaults), t); a row that is not found
\* is an error of updateOrCreate
FindOne(c, answer) ==
    /\ tx[c].pc = "findOne"
    /\ answer \in {"raised", "null"} \cup FindOneRows(ReReadWhere)
    /\ CASE answer = "raised" -> Catch(c, "findOne", TRUE)
         [] answer = "null" -> Catch(c, "notFound", FALSE)
         [] OTHER -> tx' = [tx EXCEPT ![c].pc = "finally", ![c].row = answer]
    /\ UNCHANGED outsideTransaction

\* the catch block: await t.rollback(); throw e.  A rollback that raises
\* leaves the catch block with its own error.
Rollback(c, ok) ==
    /\ tx[c].pc = "rollback"
    /\ tx' = [tx EXCEPT ![c].rollbacks = @ + 1,
                        ![c].error = IF ok THEN @ ELSE "rollback",
                        ![c].result = "raised",
                        ![c].pc = "finally"]
    /\ UNCHANGED outsideTransaction

\* a finally block that commits whatever happened
CommitsInFinally_Always(failed) == TRUE

\* if (!failed)
CommitsInFinally(failed) == ~failed

\* the finally block: await t.commit() unless the catch block ran; a commit
\* that raises replaces what the call was about to return or raise
Finally(c, ok) ==
    /\ tx[c].pc = "finally"
    /\ tx' = [tx EXCEPT ![c] =
                 IF CommitsInFinally(@.failed)
                 THEN [@ EXCEPT !.commits = @ + 1,
                                !.error = IF ok THEN @ ELSE "commit",
                                !.result = IF ok /\ tx[c].result = "none"
                                           THEN "returned"
                                           ELSE IF ok THEN @ ELSE "raised",
                                !.pc = "done"]
                 ELSE [@ EXCEPT !.pc = "done"]]
    /\ UNCHANGED outsideTransaction

InitTransaction ==
    /\ NoTransaction
    /\ NoRouterOrWhere /\ NoOrm /\ NoCrud /\ NoSplit

NextTransaction ==
    \E c \in Calls :
        \/ \E ok \in BOOLEAN : BeginTransaction(c, ok)
        \/ \E answer \in {"raised", "created", "found"} : FindOrCreate(c, answer)
        \/ \E raised \in BOOLEAN, affected \in 0..1 : Update(c, raised, affected)
        \/ \E answer \in {"raised", "null", "matching", "other"} : FindOne(c, answer)
        \/ \E ok \in BOOLEAN : Rollback(c, ok)
        \/ \E ok \in BOOLEAN : Finally(c, ok)

SpecTransaction == InitTransaction /\ [][NextTransaction]_vars

\* the call c is over
Over(c) == tx[c].pc = "done"

\* C25 as stated: a call that acquired a transaction ends it exactly once, by
\* commit if and only if no step (findOrCreate, update, findOne) raised, and by
\* rollback, with the error raised again, otherwise.
C25_CommitIffNoStepRaised ==
    \A c \in Calls :
        /\ tx[c].commits + tx[c].rollbacks <= 1
        /\ Over(c) /\ tx[c].acquired =>
              /\ tx[c].commits + tx[c].rollbacks = 1
              /\ tx[c].commits = 1 <=> ~tx[c].stepRaised
              /\ tx[c].rollbacks = 1 => tx[c].result = "raised"

\* C25: a call that acquired a transaction ends it exactly once: by commit if
\* and only if the try block came to its end without an error, that is, no
\* step raised and the row was found again after an update; by rollback, and
\* then raising the error (or the error of the rollback itself), otherwise.
\* Commit and rollback are never both called and neither is called twice; a
\* call that did not get its transaction calls neither.
C25_TransactionEndsOnce ==
    \A c \in Calls :
        /\ tx[c].commits + tx[c].rollbacks <= 1
        /\ ~tx[c].acquired => tx[c].commits + tx[c].rollbacks = 0
        /\ Over(c) /\ tx[c].acquired =>
              /\ tx[c].commits + tx[c].rollbacks = 1
              /\ tx[c].commits = 1 <=> ~tx[c].failed
              /\ tx[c].failed <=> (tx[c].stepRaised \/ tx[c].error \in {"notFound", "rollback"})
              /\ tx[c].rollbacks = 1 => tx[c].result = "raised" /\ tx[c].error # "none"
              /\ tx[c].result = "returned" => tx[c].commits = 1 /\ tx[c].error = "none"

\* one call has rolled back after a step raised while the other has committed
\* and returned
C25_Witness ==
    \E c, d \in Calls :
        /\ Over(c) /\ tx[c].stepRaised /\ tx[c].rollbacks = 1 /\ tx[c].commits = 0
        /\ Over(d) /\ tx[d].result = "returned" /\ tx[d].commits = 1 /\ tx[d].rollbacks = 0

(***************************************************************************)
(* The DbImpl objects of the models: their construction, and the           *)
(* transforms that getTransforms gives a deferred lookup of the foreign    *)
(* DbImpl (foreignDb).                                                     *)
(***************************************************************************)
ModelFns == 1..NumModels

\* the properties that carry an association, and the model each of them
\* names as its foreign model
AssociationFields == {"owner", "team"}

ForeignModelOf(fieldName) == IF fieldName = "owner" THEN 1 ELSE NumModels

\* propMeta.foreignKey of a belongs-to property
ForeignKeyOf(fieldName) == IF fieldName = "owner" THEN "ownerId" ELSE "teamId"

\* what getTransforms pushes for a property with an association
Associations == [type : {"belongs-to", "has-one"}, fieldName : AssociationFields]

\* the associations of a model, in the order getTransforms pushes them: the
\* belongs-to ones, then the has-one ones, no property twice
AssociationLists ==
    {l \in SeqsUpTo(Associations, MaxAssociations) :
        /\ \A i, j \in DOMAIN l : l[i].fieldName = l[j].fieldName => i = j
        /\ \A i, j \in DOMAIN l :
               i < j => ~(l[i].type = "has-one" /\ l[j].type = "belongs-to")}

\* the metadata of a model: its associations, and whether its foreign-key
\* columns are declared properties (copied by copyVals) as well
ModelMetas ==
    {meta \in [transforms : AssociationLists, columnsAreProps : BOOLEAN] :
        meta.columnsAreProps
        => \E i \in DOMAIN meta.transforms : meta.transforms[i].type = "belongs-to"}

\* the fields of a model that carry an association
FieldsOf(m) == {modelMeta[m].transforms[i].fieldName : i \in DOMAIN modelMeta[m].transforms}

\* the transform of the model m for the field
TransformOf(m, fieldName) ==
    modelMeta[m].transforms[CHOOSE i \in DOMAIN modelMeta[m].transforms :
                                modelMeta[m].transforms[i].fieldName = fieldName]

\* this.model of the DbImpl of the model m
StorageModelOf(m) == <<"Sql.Model", m>>

\* getForeignModelDbImpl(propMeta.foreignModel): the DbImpl of the foreign
\* model, an error when the foreign model has no db yet
Resolved(foreignModel) == foreignModel \in dbs

\* a lookup of the foreign DbImpl made by everything that has the transforms
InvokesForeignDb_Eagerly(op) == TRUE

\* foreignDb: () => DbImpl.getForeignModelDbImpl(propMeta.foreignModel) is
\* called by getFieldModel and by transformResult only
InvokesForeignDb(op) == op \in {"include", "result"}

\* the foreign models the operation op of the model m looks up when it goes
\* through all the transforms
LookedUp(m, op) ==
    IF InvokesForeignDb(op)
    THEN {ForeignModelOf(f) : f \in FieldsOf(m)}
    ELSE {}

\* what a call did
OrmCall(op, m, error, invoked, input, out) ==
    [op |-> op, model |-> m, threw |-> error # "none", error |-> error,
     invoked |-> invoked, input |-> input, out |-> out]

\* new DbImpl(modelFn, ...) and, when the constructor has returned, Model.db
\* set to it
Construct(m) ==
    /\ m \notin dbs
    /\ LET invoked == LookedUp(m, "construct")
           ok == \A f \in invoked : Resolved(f)
       IN /\ ormCall' = OrmCall("construct", m, IF ok THEN "none" ELSE "notResolved",
                                invoked, <<>>, <<>>)
          /\ dbs' = IF ok THEN dbs \cup {m} ELSE dbs
    /\ UNCHANGED <<outsideOrm, modelMeta>>

\* this.transformQueryWhere(query) of the DbImpl of m: the loop of lines
\* 312-334 reads the names and the type of the transforms
OrmTransformQueryWhere(m) ==
    /\ m \in dbs
    /\ LET invoked == LookedUp(m, "where")
           ok == \A f \in invoked : Resolved(f)
       IN ormCall' = OrmCall("where", m, IF ok THEN "none" ELSE "notResolved",
                             invoked, <<>>, <<>>)
    /\ UNCHANGED <<outsideOrm, modelMeta, dbs>>

\* an entry that carries the name of the column for the alias
IncludeEntry_ColumnAlias(f, fieldName) ==
    [model |-> StorageModelOf(f), as |-> ForeignKeyOf(fieldName)]

\* { model: getFieldModel(fieldName), as: fieldName }
IncludeEntry(f, fieldName) == [model |-> StorageModelOf(f), as |-> fieldName]

\* fields.map(...) of transformQueryInclude from the k-th field on: what it has
\* looked up and mapped so far, or the error that ended it
RECURSIVE IncludeFrom(_, _, _, _, _)
IncludeFrom(m, fields, k, invoked, out) ==
    IF k > Len(fields) THEN [error |-> "none", invoked |-> invoked, out |-> out]
    ELSE IF fields[k] \notin FieldsOf(m)
         THEN [error |-> "unknownField", invoked |-> invoked, out |-> <<>>]
    ELSE LET f == ForeignModelOf(fields[k]) IN
         IF ~Resolved(f)
         THEN [error |-> "notResolved", invoked |-> invoked \cup {f}, out |-> <<>>]
         ELSE IncludeFrom(m, fields, k + 1, invoked \cup {f},
                          Append(out, IncludeEntry(f, fields[k])))

\* this.transformQueryInclude(fields) of the DbImpl of m
TransformQueryInclude(m, fields) ==
    /\ m \in dbs
    /\ LET r == IncludeFrom(m, fields, 1, {}, <<>>)
       IN ormCall' = OrmCall("include", m, r.error, r.invoked, fields, r.out)
    /\ UNCHANGED <<outsideOrm, modelMeta, dbs>>

\* the key of a raw row or of a domain object that is not there
Missing == [kind |-> "absent", id |-> 0]

\* the value of a foreign-key column
ForeignKeys == {Missing} \cup [kind : {"id"}, id : Ids]

\* raw rows: for every association field the value of its foreign-key column
\* and whether the field was eager-loaded
RawRows ==
    UNION {[fields -> [fk : ForeignKeys, loaded : BOOLEAN]] :
              fields \in SUBSET AssociationFields}

\* the raw rows of the table of the model m: the table of m has no column for
\* a has-one association
IsRowOf(m, row) ==
    /\ DOMAIN row = FieldsOf(m)
    /\ \A f \in FieldsOf(m) :
           TransformOf(m, f).type = "has-one" => row[f].fk = Missing

\* the raw row of the model m that is eager-loaded into a row of another
\* model: nothing is eager-loaded into it
NestedRow(m) ==
    [f \in FieldsOf(m) |->
        [fk |-> IF TransformOf(m, f).type = "belongs-to"
                THEN [kind |-> "id", id |-> 5] ELSE Missing,
         loaded |-> FALSE]]

\* let t = new this.modelFn(); this.copyVals(result, t): the domain object
\* before the transforms, with the foreign-key columns that are properties
Copied(m, row) ==
    [model |-> m,
     fields |-> [f \in FieldsOf(m) |-> Missing],
     columns |-> [f \in FieldsOf(m) |->
                     IF modelMeta[m].columnsAreProps
                        /\ TransformOf(m, f).type = "belongs-to"
                     THEN row[f].fk ELSE Missing]]

\* the loop of transformResult of the model m from the q-th transform
\* on; depth bounds the rows eager-loaded into each other
RECURSIVE ResultFrom(_, _, _, _, _, _)
ResultFrom(m, row, q, invoked, result, depth) ==
    IF q > Len(modelMeta[m].transforms)
    THEN [error |-> "none", invoked |-> invoked, out |-> result]
    ELSE LET t == modelMeta[m].transforms[q]
             f == ForeignModelOf(t.fieldName)
             seen == invoked \cup {f}
         IN IF ~Resolved(f)
            THEN [error |-> "notResolved", invoked |-> seen, out |-> Missing]
            ELSE IF row[t.fieldName].loaded /\ depth > 0
            THEN LET inner == ResultFrom(f, NestedRow(f), 1, {}, Copied(f, NestedRow(f)),
                                         depth - 1)
                 IN IF inner.error # "none"
                    THEN [error |-> inner.error, invoked |-> seen \cup inner.invoked,
                          out |-> Missing]
                    ELSE ResultFrom(m, row, q + 1, seen \cup inner.invoked,
                                    [result EXCEPT !.fields[t.fieldName] =
                                        [kind |-> "domain", id |-> 0, obj |-> inner.out]],
                                    depth)
            ELSE IF t.type = "belongs-to" /\ Truthy(row[t.fieldName].fk)
            THEN ResultFrom(m, row, q + 1, seen,
                            [result EXCEPT !.fields[t.fieldName] = row[t.fieldName].fk,
                                           !.columns[t.fieldName] = Missing],
                            depth)
            ELSE ResultFrom(m, row, q + 1, seen, result, depth)

\* this.wrapResult(result) of the DbImpl of m: copyVals, then transformResult
WrapResult(m, row) ==
    /\ m \in dbs
    /\ IsRowOf(m, row)
    /\ LET r == ResultFrom(m, row, 1, {}, Copied(m, row), 1)
       IN ormCall' = OrmCall("result", m, r.error, r.invoked, row, r.out)
    /\ UNCHANGED <<outsideOrm, modelMeta, dbs>>

InitOrm ==
    /\ modelMeta \in [ModelFns -> ModelMetas]
    /\ dbs = {}
    /\ ormCall = NoOrmCall
    /\ NoRouterOrWhere /\ NoTransaction /\ NoCrud /\ NoSplit

NextOrm ==
    \E m \in ModelFns :
        \/ Construct(m)
        \/ OrmTransformQueryWhere(m)
        \/ \E fields \in SeqsUpTo(Names, MaxInclude) : TransformQueryInclude(m, fields)
        \/ \E row \in RawRows : WrapResult(m, row)

SpecOrm == InitOrm /\ [][NextOrm]_vars

\* the call just made was transformQueryInclude with a list of field names
Included == ormCall.op = "include"

\* C22: transformQueryInclude of a list of field names returns a list of the
\* same length and order whose k-th entry pairs the storage model of the
\* foreign model of the association declared under the k-th name with that name
\* as the alias; when a name is the name of no declared association the call
\* fails with an error and returns nothing.
C22_IncludeMapsEveryField ==
    Included =>
        LET fields == ormCall.input
            declared == \A k \in DOMAIN fields : fields[k] \in FieldsOf(ormCall.model)
        IN /\ ~ormCall.threw =>
                 /\ Len(ormCall.out) = Len(fields)
                 /\ \A k \in DOMAIN fields :
                        /\ fields[k] \in FieldsOf(ormCall.model)
                        /\ ormCall.out[k].as = fields[k]
                        /\ ormCall.out[k].model
                           = StorageModelOf(ForeignModelOf(TransformOf(ormCall.model,
                                                                       fields[k]).fieldName))
           /\ ~declared => ormCall.threw
           /\ ormCall.threw => ormCall.out = <<>>
           /\ declared /\ (\A k \in DOMAIN fields : ForeignModelOf(fields[k]) \in dbs)
              => ~ormCall.threw

\* a list of two declared names of two foreign models was mapped
C22_Witness ==
    /\ Included /\ ~ormCall.threw
    /\ Len(ormCall.input) = 2
    /\ ormCall.out[1].model # ormCall.out[2].model
    /\ ormCall.out[1].as = "team" /\ ormCall.out[2].as = "owner"

\* the call just made was wrapResult for a raw row
Wrapped == ormCall.op = "result" /\ ~ormCall.threw

\* C23: for a raw row in which a belongs-to association was not eager-loaded,
\* the domain object has the raw foreign-key value under the association
\* field and no key named after the foreign-key column; when the association
\* was eager-loaded, the field holds a domain object of the foreign model made
\* by the result transform of the foreign DbImpl.  Read for rows whose
\* foreign-key column holds an id.
C23_ForeignKeyUnderField ==
    Wrapped =>
        \A f \in FieldsOf(ormCall.model) :
            TransformOf(ormCall.model, f).type = "belongs-to" =>
                /\ ~ormCall.input[f].loaded /\ ormCall.input[f].fk # Missing
                   => /\ ormCall.out.fields[f] = ormCall.input[f].fk
                      /\ ormCall.out.columns[f] = Missing
                /\ ormCall.input[f].loaded
                   => /\ ormCall.out.fields[f].kind = "domain"
                      /\ ormCall.out.fields[f].obj.model = ForeignModelOf(f)

\* C24: the deferred lookup of the foreign DbImpl is made by no construction
\* of a DbImpl and by no where transform, only by an include transform or a
\* result transform; so the construction of a DbImpl never fails for a foreign
\* model that has no DbImpl yet, whatever the order of the constructions.
C24_ForeignDbDeferred ==
    /\ ormCall.op \in {"construct", "where"} => ormCall.invoked = {} /\ ~ormCall.threw
    /\ ormCall.invoked # {} => ormCall.op \in {"include", "result"}
    /\ ormCall.error = "notResolved" => ormCall.op \in {"include", "result"}

\* the DbImpl of a model was constructed before the DbImpl of the model its
\* association names, which names the first model in turn
C24_Witness ==
    /\ ormCall.op = "construct" /\ ~ormCall.threw
    /\ dbs = {ormCall.model}
    /\ \E m \in ModelFns :
           /\ m # ormCall.model
           /\ m \in {ForeignModelOf(f) : f \in FieldsOf(ormCall.model)}
           /\ ormCall.model \in {ForeignModelOf(f) : f \in FieldsOf(m)}

\* ------------------------------------------------------------------------
\* SpecCrud: the routes of a CrudController as the reflector registers them,
\* and its handlers create and destroy, one step per await.

\* the statuses the handlers send; both are imported from ../util
HTTP_STATUS_OK == 200
HTTP_STATUS_ERROR == 500

\* the status a hook of a subclass sends
HookStatus == 403

\* this.pluralName and this.singularName
pluralName == "users"
singularName == "user"

\* the routes the decorators of CrudController declare, in the order of the
\* class body; update carries @Put and @Patch. A path is its segments.
CrudRoutes ==
    <<[routeFnName |-> "create",  method |-> "post",   path |-> <<"%%PLURAL_NAME%%", "create">>],
      [routeFnName |-> "find",    method |-> "get",    path |-> <<"%%PLURAL_NAME%%", "find">>],
      [routeFnName |-> "count",   method |-> "get",    path |-> <<"%%PLURAL_NAME%%", "count">>],
      [routeFnName |-> "get",     method |-> "get",    path |-> <<"%%SINGULAR_NAME%%", ":id">>],
      [routeFnName |-> "update",  method |-> "put",    path |-> <<"%%SINGULAR_NAME%%", ":id">>],
      [routeFnName |-> "update",  method |-> "patch",  path |-> <<"%%SINGULAR_NAME%%", ":id">>],
      [routeFnName |-> "destroy", method |-> "delete", path |-> <<"%%SINGULAR_NAME%%", ":id">>]>>

\* the members CrudController defines
CrudMembers ==
    {"splitOnWords", "getSingularPath", "getPluralPath", "transformPathPart",
     "transformQuery", "transformResult", "transformCreateQuery",
     "transformCreateResult", "create", "afterCreate", "find", "count", "get",
     "update", "destroy"}

\* typeof controller[name]
TypeofMember(name) == IF name \in CrudMembers THEN "function" ELSE "undefined"

\* part.replace(/placeholder/, name): the regular expression is not global,
\* the first occurrence is replaced
ReplaceFirst(part, placeholder, name) ==
    LET at == {i \in DOMAIN part : part[i] = placeholder}
    IN IF at = {} THEN part
       ELSE [part EXCEPT ![CHOOSE i \in at : \A j \in at : i <= j] = name]

\* CrudController.transformPathPart(part)
transformPathPart(part) ==
    ReplaceFirst(ReplaceFirst(part, "%%PLURAL_NAME%%", pluralName),
                 "%%SINGULAR_NAME%%", singularName)

\* the path part addRoute joins into the full path of the route: lines 147-150
\* of the reflector, for a controller that is a CrudController
CrudPathPart(routeMeta) ==
    IF TypeofMember("transformRoutePathPart") = "function"
    THEN transformRoutePathPart("pathPart", routeMeta.path)
    ELSE routeMeta.path

\* res.status(status).send(...) or .json(...) called by the handler or a hook
Send(r, by, code) ==
    [r EXCEPT !.statusCode = code,
              !.headersSent = TRUE,
              !.sent = Append(@, [by |-> by, status |-> code,
                                  delivered |-> ~r.headersSent])]

\* a test of the response that sees nothing
ResponseTouched_Never(r) == FALSE

\* res.statusCode !== initialStatusCode || res.headersSent, for a response that
\* was fresh when initialStatusCode was read
ResponseTouched(r) == r.statusCode # DefaultStatusCode \/ r.headersSent

\* all the routes of the controller are registered and no handler is running
CrudIdle ==
    /\ Len(crudCtl.registered) = Len(CrudRoutes)
    /\ crud.pc \in {"idle", "done"}
    /\ ~crud.suspended

\* addRoute for the next route of the controller
AddCrudRoute ==
    /\ Len(crudCtl.registered) < Len(CrudRoutes)
    /\ LET routeMeta == CrudRoutes[Len(crudCtl.registered) + 1]
       IN crudCtl' = [crudCtl EXCEPT !.registered =
                         Append(@, [routeFnName |-> routeMeta.routeFnName,
                                    method |-> routeMeta.method,
                                    path |-> CrudPathPart(routeMeta)])]
    /\ UNCHANGED <<outsideCrud, crud>>

\* create, lines 61-62: up to the await of transformCreateQuery
Create(body) ==
    /\ CrudIdle
    /\ crud' = [NoCrudRequest EXCEPT !.op = "create", !.pc = "transformCreateQuery",
                                     !.body = body]
    /\ UNCHANGED <<outsideCrud, crudCtl>>

\* what transformCreateQuery evaluates to: the default returns the query it
\* was given, which is req.body
DataOf(returned, body) ==
    IF returned = "query" THEN body
    ELSE IF returned = "falsy" THEN "none"
    ELSE returned

\* create, lines 62-73: transformCreateQuery has returned
TransformCreateQuery ==
    /\ crud.op = "create" /\ crud.pc = "transformCreateQuery"
    /\ LET returned == crudCtl.hooks.transformCreateQuery.returned
           r == [crud EXCEPT !.returned = returned]
           hooked == IF crudCtl.hooks.transformCreateQuery.sends THEN Send(r, "transformCreateQuery", HookStatus) ELSE r
           data == DataOf(returned, crud.body)
       IN crud' = IF ResponseTouched(hooked) THEN [hooked EXCEPT !.pc = "done"]
                  ELSE IF data = "none"
                  THEN [Send(hooked, "create", HTTP_STATUS_ERROR) EXCEPT !.pc = "done"]
                  ELSE IF data = "array"
                  THEN [hooked EXCEPT !.pc = "done", !.threw = TRUE]
                  ELSE [hooked EXCEPT !.pc = "dbCreate",
                                      !.storage = Append(@, "create")]
    /\ UNCHANGED <<outsideCrud, crudCtl>>

\* create, lines 75-78: db.create(data) has returned
DbCreate ==
    /\ crud.op = "create" /\ crud.pc = "dbCreate"
    /\ crud' = [crud EXCEPT !.created = DataOf(crud.returned, crud.body),
                            !.pc = "transformCreateResult"]
    /\ UNCHANGED <<outsideCrud, crudCtl>>

\* line 84 calls afterCreate and does not await it: create goes on when the
\* hook returns its promise, and sees what the hook did before it suspended
SeenByCreate(mode) == mode = "sendsNow"

\* create, lines 78-89: transformCreateResult has returned; afterCreate is
\* called, and create goes on to its own response
TransformCreateResult ==
    /\ crud.op = "create" /\ crud.pc = "transformCreateResult"
    /\ LET mode == crudCtl.hooks.afterCreate
           hooked == IF crudCtl.hooks.transformCreateResult.sends
                     THEN Send(crud, "transformCreateResult", HookStatus)
                     ELSE crud
           called == [hooked EXCEPT !.afterCreate = mode]
           after == IF mode = "sendsNow" THEN Send(called, "afterCreate", HookStatus)
                    ELSE called
       IN crud' = IF ResponseTouched(hooked) THEN [hooked EXCEPT !.pc = "done"]
                  ELSE IF SeenByCreate(mode)
                  THEN [after EXCEPT !.pc = "done"]
                  ELSE [Send(after, "create", HTTP_STATUS_OK) EXCEPT
                            !.pc = "done", !.suspended = (mode = "sendsLater")]
    /\ UNCHANGED <<outsideCrud, crudCtl>>

\* afterCreate goes on after its await and sends its response
AfterCreateResumes ==
    /\ crud.op = "create" /\ crud.suspended
    /\ crud' = [Send(crud, "afterCreate", HookStatus) EXCEPT !.suspended = FALSE]
    /\ UNCHANGED <<outsideCrud, crudCtl>>

\* a number of the language: an integer, Infinity or NaN
Num(n) == [kind |-> "int", v |-> n]
Infinity == [kind |-> "inf", v |-> 0]
NaN == [kind |-> "nan", v |-> 0]

\* the values of a parameter of a request: the parameter is missing, empty,
\* no number, a negative number, zero, a positive number, or the digit 9 four
\* hundred times
Params == {"absent", "", "abc", "-2", "0", "3", "9x400"}

\* parseInt(param, 10): NaN for what does not begin with a number, Infinity for
\* digits beyond the largest number of the language
parseInt(param) ==
    CASE param = "-2" -> Num(-2)
      [] param = "0" -> Num(0)
      [] param = "3" -> Num(3)
      [] param = "9x400" -> Infinity
      [] OTHER -> NaN

\* a number read as a condition: 0 and NaN are falsy
TruthyNumber(n) == n.kind = "inf" \/ (n.kind = "int" /\ n.v # 0)

\* n < bound or n <= bound, for a bound that is an integer: false for NaN
Below(n, bound, orEqual) ==
    n.kind = "int" /\ (n.v < bound \/ (orEqual /\ n.v = bound))

\* a * b: Infinity times 0 is NaN
Times(a, b) ==
    IF a.kind = "nan" \/ b.kind = "nan" THEN NaN
    ELSE IF a.kind = "int" /\ b.kind = "int" THEN Num(a.v * b.v)
    ELSE IF (a.kind = "int" /\ a.v = 0) \/ (b.kind = "int" /\ b.v = 0) THEN NaN
    ELSE Infinity

\* find, line 124: if (!perPage || !(perPage = parseInt('' + perPage, 10)) ||
\* isNaN(perPage) || perPage <= 0) perPage = 10
PerPageOf(param) ==
    IF param \in {"absent", ""} \/ ~TruthyNumber(parseInt(param))
       \/ Below(parseInt(param), 0, TRUE)
    THEN Num(10) ELSE parseInt(param)

\* find, line 126: if (!page || !(page = parseInt('' + page, 10)) || isNaN(page)
\* || page < 0) page = 0
PageOf(param) ==
    IF param \in {"absent", ""} \/ ~TruthyNumber(parseInt(param))
       \/ Below(parseInt(param), 0, FALSE)
    THEN Num(0) ELSE parseInt(param)

\* get, update, destroy: if (!id || isNaN(id)) for id = parseInt(params.id, 10)
InvalidId(param) == ~TruthyNumber(parseInt(param))

\* find, lines 97-108, and count, lines 145-152: the parameters are parsed; up
\* to the await of transformQuery
Find(parsed, perPage, page) ==
    /\ CrudIdle
    /\ LET r == [NoCrudRequest EXCEPT !.op = "find", !.perPage = perPage, !.page = page]
       IN crud' = IF parsed THEN [r EXCEPT !.pc = "transformQuery"]
                  ELSE [Send(r, "find", HTTP_STATUS_ERROR) EXCEPT !.pc = "done"]
    /\ UNCHANGED <<outsideCrud, crudCtl>>

Count(parsed) ==
    /\ CrudIdle
    /\ LET r == [NoCrudRequest EXCEPT !.op = "count"]
       IN crud' = IF parsed THEN [r EXCEPT !.pc = "transformQuery"]
                  ELSE [Send(r, "count", HTTP_STATUS_ERROR) EXCEPT !.pc = "done"]
    /\ UNCHANGED <<outsideCrud, crudCtl>>

\* find, lines 120-134, and count, lines 155-160: transformQuery has returned;
\* up to the await of the storage call
TransformQuery ==
    /\ crud.pc = "transformQuery"
    /\ LET hooked == IF crudCtl.hooks.transformQuery.sends
                     THEN Send(crud, "transformQuery", HookStatus) ELSE crud
       IN crud' = IF ResponseTouched(hooked) THEN [hooked EXCEPT !.pc = "done"]
                  ELSE IF crud.op = "find"
                  THEN [hooked EXCEPT !.pc = "dbFindAndCountAll",
                                      !.storage = Append(@, "findAndCountAll"),
                                      !.limit = PerPageOf(crud.perPage),
                                      !.offset = Times(PerPageOf(crud.perPage),
                                                       PageOf(crud.page))]
                  ELSE [hooked EXCEPT !.pc = "dbCount",
                                      !.storage = Append(@, "count")]
    /\ UNCHANGED <<outsideCrud, crudCtl>>

\* find, lines 135-140, and count, line 161: the storage call has returned
DbFindOrCount ==
    /\ crud.pc \in {"dbFindAndCountAll", "dbCount"}
    /\ crud' = [Send(crud, crud.op, HTTP_STATUS_OK) EXCEPT !.pc = "done"]
    /\ UNCHANGED <<outsideCrud, crudCtl>>

\* get, lines 166-181: up to the await of db.findById
Get(id, parsed) ==
    /\ CrudIdle
    /\ LET r == [NoCrudRequest EXCEPT !.op = "get", !.id = id]
       IN crud' = IF InvalidId(id) \/ ~parsed
                  THEN [Send(r, "get", HTTP_STATUS_ERROR) EXCEPT !.pc = "done"]
                  ELSE [r EXCEPT !.pc = "dbFindById", !.storage = Append(@, "findById")]
    /\ UNCHANGED <<outsideCrud, crudCtl>>

\* get, lines 181-184: db.findById has returned, transformResult is awaited
\* and the result is sent unless the hook produced a response
DbFindById ==
    /\ crud.pc = "dbFindById"
    /\ LET hooked == IF crudCtl.hooks.transformResult.sends
                     THEN Send(crud, "transformResult", HookStatus) ELSE crud
       IN crud' = IF ResponseTouched(hooked) THEN [hooked EXCEPT !.pc = "done"]
                  ELSE [Send(hooked, "get", HTTP_STATUS_OK) EXCEPT !.pc = "done"]
    /\ UNCHANGED <<outsideCrud, crudCtl>>

\* update, lines 190-213: up to the await of db.update; returning is the
\* parameter of that name: missing, a boolean, or something else
CrudUpdate(id, body, returning) ==
    /\ CrudIdle
    /\ LET r == [NoCrudRequest EXCEPT !.op = "update", !.id = id, !.body = body,
                                      !.returning = (returning = "true")]
       IN crud' = IF InvalidId(id) \/ body = "none" \/ returning = "other"
                  THEN [Send(r, "update", HTTP_STATUS_ERROR) EXCEPT !.pc = "done"]
                  ELSE [r EXCEPT !.pc = "dbUpdate", !.storage = Append(@, "update")]
    /\ UNCHANGED <<outsideCrud, crudCtl>>

\* update, lines 213-221: db.update has returned [updated, results]
DbUpdate(updated) ==
    /\ crud.pc = "dbUpdate"
    /\ crud' = [Send(crud, "update",
                     IF updated THEN HTTP_STATUS_OK ELSE HTTP_STATUS_ERROR)
                EXCEPT !.pc = "done"]
    /\ UNCHANGED <<outsideCrud, crudCtl>>

\* destroy, lines 226-231: up to the await of db.destroy
Destroy(id) ==
    /\ CrudIdle
    /\ LET r == [NoCrudRequest EXCEPT !.op = "destroy", !.id = id]
       IN crud' = IF InvalidId(id)
                  THEN [Send(r, "destroy", HTTP_STATUS_ERROR) EXCEPT !.pc = "done"]
                  ELSE [r EXCEPT !.pc = "dbDestroy", !.storage = Append(@, "destroy")]
    /\ UNCHANGED <<outsideCrud, crudCtl>>

\* res.status(HTTP_STATUS_OK).json({destroyed: destroyed})
DestroyStatus(destroyed) == HTTP_STATUS_OK

\* destroy, lines 231-232: db.destroy(id) has returned
DbDestroy(destroyed) ==
    /\ crud.op = "destroy" /\ crud.pc = "dbDestroy"
    /\ crud' = [Send([crud EXCEPT !.destroyed = destroyed], "destroy",
                     DestroyStatus(destroyed))
                EXCEPT !.pc = "done"]
    /\ UNCHANGED <<outsideCrud, crudCtl>>

\* the hooks of a subclass of CrudController: what its transformCreateQuery
\* returns, which of its hooks send a response themselves, and whether its
\* afterCreate sends one before or after it suspends
CrudHooks ==
    [transformCreateQuery : [returned : {"query", "falsy", "other", "array"},
                             sends : BOOLEAN],
     transformCreateResult : [sends : BOOLEAN],
     afterCreate : {"returns", "sendsNow", "sendsLater"},
     transformQuery : [sends : BOOLEAN],
     transformResult : [sends : BOOLEAN]]

InitCrud ==
    /\ crudCtl \in [hooks : CrudHooks, registered : {<<>>}]
    /\ crud = NoCrudRequest
    /\ NoRouterOrWhere /\ NoOrm /\ NoTransaction /\ NoSplit

NextCrud ==
    \/ AddCrudRoute
    \/ \E body \in {"none", "body"} : Create(body)
    \/ TransformCreateQuery
    \/ DbCreate
    \/ TransformCreateResult
    \/ AfterCreateResumes
    \/ \E parsed \in BOOLEAN, perPage \in Params, page \in Params :
           Find(parsed, perPage, page)
    \/ \E parsed \in BOOLEAN : Count(parsed)
    \/ TransformQuery
    \/ DbFindOrCount
    \/ \E id \in Params, parsed \in BOOLEAN : Get(id, parsed)
    \/ DbFindById
    \/ \E id \in Params, body \in {"none", "body"},
          returning \in {"absent", "true", "false", "other"} :
           CrudUpdate(id, body, returning)
    \/ \E updated \in BOOLEAN : DbUpdate(updated)
    \/ \E id \in Params : Destroy(id)
    \/ \E destroyed \in {"true", "false"} : DbDestroy(destroyed)

SpecCrud == InitCrud /\ [][NextCrud]_vars

\* the placeholders of the paths of CrudController
Placeholders == {"%%PLURAL_NAME%%", "%%SINGULAR_NAME%%"}

\* C26: the reflector calls the hook of CrudController that replaces the
\* placeholders for each route, so no registered path of a CrudController
\* contains %%PLURAL_NAME%% or %%SINGULAR_NAME%%.
C26_NoPlaceholderRegistered ==
    \A i \in DOMAIN crudCtl.registered :
        \A k \in DOMAIN crudCtl.registered[i].path :
            crudCtl.registered[i].path[k] \notin Placeholders

\* create is past the return of transformCreateQuery, which returned a falsy
\* value and sent no response
ReturnedFalsy ==
    /\ crud.op = "create" /\ crud.pc # "transformCreateQuery"
    /\ crud.returned = "falsy"
    /\ ~crudCtl.hooks.transformCreateQuery.sends

\* create has sent an answer of its own with the status
Answered(by, code) ==
    \E i \in DOMAIN crud.sent : crud.sent[i].by = by /\ crud.sent[i].status = code

\* C27: when transformCreateQuery returns a falsy value and sends no
\* response, create goes on to db.create with the request body; it answers
\* HTTP_STATUS_ERROR only when the request has no body.
C27_FalsyQueryFallsBackToBody ==
    /\ ReturnedFalsy /\ crud.body # "none"
       => /\ ~Answered("create", HTTP_STATUS_ERROR)
          /\ crud.pc = "dbCreate" \/ crud.created = crud.body
    /\ Answered("create", HTTP_STATUS_ERROR) => crud.body = "none"

\* C28: when afterCreate sends a response, before or after it suspends,
\* create sends no response of its own: one response is sent, by afterCreate,
\* with the status afterCreate set.
C28_AfterCreateAnswersAlone ==
    crud.op = "create" /\ crud.afterCreate \in {"sendsNow", "sendsLater"}
    => /\ ~Answered("create", HTTP_STATUS_OK)
       /\ ~crud.suspended
          => /\ Len(crud.sent) = 1
             /\ crud.sent[1].by = "afterCreate"
             /\ crud.statusCode = HookStatus

\* C29: destroy with a valid id answers HTTP_STATUS_OK when db.destroy reports
\* that the record was destroyed and HTTP_STATUS_ERROR when it reports that
\* nothing was.
C29_DestroyStatusFollowsResult ==
    crud.op = "destroy" /\ crud.pc = "done" /\ crud.destroyed # "none"
    => /\ Len(crud.sent) = 1
       /\ crud.sent[1].status
          = IF crud.destroyed = "true" THEN HTTP_STATUS_OK ELSE HTTP_STATUS_ERROR

\* ------------------------------------------------------------------------
\* Further properties of the reflection of the routes (SpecReflect)

\* the call of addRoute just made was for a declaration with a method, of a
\* controller whose transformRoute hook is h
HookedBy(h) ==
    /\ lastRoute.kind # "none"
    /\ lastRoute.from.hooks = h
    /\ lastRoute.from.entry.method # "undefined"

\* C32 as stated, a false-like value read as any value that is not truthy: a
\* route whose transformRoute hook returns false or undefined is skipped.
C32_FalsyResultSkips ==
    HookedBy("veto") \/ HookedBy("undefined") => lastRoute.kind = "skipped"

\* C32: a route is skipped exactly when the transformRoute hook of its
\* controller returns the boolean false: the route is not registered,
\* routesReflected keeps its value and the loop goes on with the next
\* declaration without an error; any other result of the hook, undefined
\* included, is no veto, and a route that is registered then has the handler
\* name and the path the hook left in the route object.
C32_SkippedOnlyByFalse ==
    /\ [](/\ HookedBy("veto") => lastRoute.kind = "skipped"
          /\ lastRoute.kind = "skipped" => HookedBy("veto") /\ status.phase # "failed"
          /\ HookedBy("undefined") => lastRoute.kind \in {"added", "threw"}
          /\ HookedBy("rename") /\ lastRoute.kind = "added"
             => /\ lastRoute.routeFnName = "index"
                /\ lastRoute.fullPath = <<"renamed">>)
    /\ [][lastRoute'.kind = "skipped"
          => /\ routesReflected' = routesReflected
             /\ status' = status
             /\ current'.w = current.w + 1]_vars

\* a route was skipped after another one was registered
C32_Witness ==
    /\ HookedBy("veto") /\ lastRoute.kind = "skipped"
    /\ routesReflected > 0

\* ------------------------------------------------------------------------
\* Further properties of the request pipeline (Spec, SpecChain)

\* the positions at which the pipeline writes a response of its own
Synthesized(r) == At(r, "synth", "500") \cup At(r, "synth", "404")

\* C36: the pipeline writes its 500 and its 404 only on a response whose
\* headers are not sent: when it synthesizes a response, the error handler
\* called just before has returned with no response produced.
C36_SynthesizedOnlyIfUnsent ==
    \A r \in Requests : \A i \in Synthesized(r) : ~log[r][i - 1].produced

\* the calls of the step (step, idx) in the history of r
CallsOf(r, step, idx) == {i \in At(r, "start", step) : log[r][i].idx = idx}

\* the positions at which the registered interceptor k returned without
\* anything further in having been called from it: its return follows its call
ReturnedAtOnce(r, k) ==
    {j \in At(r, "end", "icept") :
        /\ log[r][j].idx = k
        /\ j > 1 /\ Is(log[r][j - 1], "start", "icept") /\ log[r][j - 1].idx = k}

\* something further in than the interceptor k is called at position j
CallsBeyond(r, k, j) ==
    \/ CallsForward(r, j)
    \/ Is(log[r][j], "start", "icept") /\ log[r][j].idx > k

\* a step of the request r that calls an interceptor, a policy or the handler
InvokesFurther(r) ==
    \E j \in DOMAIN log'[r] :
        /\ j > Len(log[r])
        /\ log'[r][j].ev \in {"start", "enter"}
        /\ log'[r][j].step \in {"icept", "layer", "policy", "route"}

\* C33 as stated: once an interceptor has returned without calling next, no
\* later interceptor, no policy and not the handler is called for the request.
C33_NothingAfterDeclinedNext ==
    \A r \in Requests : \A k \in DOMAIN chain[r] : \A j \in ReturnedAtOnce(r, k) :
        \A i \in DOMAIN log[r] : i > j => ~CallsBeyond(r, k, i)

\* C33: what is further in than an interceptor is called by a call of next of
\* that interceptor only, made while no response is produced: when the
\* interceptor was called once and returned without calling next, no later
\* interceptor, no policy and not the handler is called for the request; and a
\* call of next made by an interceptor after a response was produced (status
\* changed or headers sent) calls nothing.
C33_NextIsTheOnlyWayIn ==
    /\ [](\A r \in Requests : \A k \in DOMAIN chain[r] :
              /\ Cardinality(CallsOf(r, "icept", k)) = 1 /\ ReturnedAtOnce(r, k) # {}
                 => \A i \in DOMAIN log[r] : ~CallsBeyond(r, k, i)
              /\ \A i \in DOMAIN log[r] :
                     CallsBeyond(r, k, i) /\ k < Len(chain[r])
                     => \E j \in CallsOf(r, "icept", k + 1) : j <= i)
    /\ [][\A r \in Requests :
              pc[r] = "icept" /\ Produced(res[r], outerInitial[r]) => ~InvokesFurther(r)]_vars

\* the last interceptor returned without calling next, was called again by the
\* interceptor before it, and called the policies and the handler then
C33_Witness ==
    \E r \in Requests :
        /\ pc[r] = "done"
        /\ ReturnedAtOnce(r, Len(chain[r])) # {}
        /\ Cardinality(CallsOf(r, "icept", Len(chain[r]))) = 2
        /\ At(r, "start", "route") # {}

C37_FlattenReturnsForEveryMeta ==
    aggregate.ran => ~aggregate.threw /\ NoDuplicates(aggregate.list)

\* ------------------------------------------------------------------------
\* Further properties of transformQueryWhere (SpecWhere)

\* the name is the field name of no declared association
NoAssociationField(name) ==
    \A j \in DOMAIN transforms : transforms[j].fieldName # name

\* transformQueryWhere has returned a filter for the filter it was given
Rewritten == transformed.ran /\ ~transformed.threw /\ query.defined

\* the call leaves the object it was given as it was
InputKept == [][~transformed.ran /\ transformed'.ran => query' = query]_vars

C39_ReReadRowMatchesFilter ==
    \A c \in Calls :
        Over(c) /\ tx[c].result = "returned" /\ tx[c].row # "created"
        => tx[c].row = "matching"
(***************************************************************************)
(* Further properties of the handlers of CrudController                    *)
(***************************************************************************)

\* C31: whenever find has called findAndCountAll, the limit it passed is an
\* integer that is at least 1 and the offset it passed is an integer that is
\* at least 0, whatever the perPage and page parameters of the request are.
C31_LimitAndOffsetInRange ==
    (crud.op = "find" /\ crud.storage # <<>>) =>
        /\ crud.limit.kind = "int" /\ crud.limit.v >= 1
        /\ crud.offset.kind = "int" /\ crud.offset.v >= 0

\* the hooks that transform the query of create, find and count
QueryHooks == {"transformCreateQuery", "transformQuery"}

\* the hook of the query has sent a response
QueryHookAnswered(r) ==
    \E i \in 1..Len(r.sent) : r.sent[i].by \in QueryHooks

\* C35: in create, find and count, when the hook that transforms the query
\* has produced a response, no storage operation is called and the response of
\* the hook stays the only one; in get, update and destroy, a request whose id
\* is missing or is no number is answered HTTP_STATUS_ERROR by the handler and
\* no storage operation is called.
C35_NoStorageAfterHookOrBadId ==
    /\ (crud.op \in {"create", "find", "count"} /\ QueryHookAnswered(crud)) =>
           /\ crud.storage = <<>>
           /\ Len(crud.sent) = 1
           /\ crud.pc = "done"
    /\ (crud.op \in {"get", "update", "destroy"} /\ crud.id \in {"absent", "", "abc"}) =>
           /\ crud.storage = <<>>
           /\ crud.sent = <<[by |-> crud.op, status |-> HTTP_STATUS_ERROR,
                             delivered |-> TRUE]>>

\* find has returned after transformQuery answered the request
C35_Witness ==
    /\ crud.op = "find" /\ crud.pc = "done"
    /\ QueryHookAnswered(crud)
    /\ crud.storage = <<>>

====
